---- MODULE Spec2Model ----
(***************************************************************************)
(* The AI File Bridge MCP server (ai_file_bridge_server.py): the stdio     *)
(* loop of main(), the request router of AIFileBridgeServer and the path   *)
(* and extension checks of ExcelReader / WordReader in front of the        *)
(* document codecs.                                                        *)
(*                                                                         *)
(* JSON values are modelled by string tokens: Absent is a key that is not  *)
(* in a mapping, None is JSON null / Python None, JTrue and JFalse are the *)
(* JSON booleans, every other token is a JSON string.                      *)
(***************************************************************************)
EXTENDS Integers, Sequences, FiniteSets, TLC

VARIABLES
    fs,           \* the filesystem: what each path is on disk
    document,     \* what python-docx parses from a well-formed .docx file
    workbook,     \* what a well-formed Excel file holds
    stdin,        \* the lines written to standard input and not read yet
    stdinClosed,  \* the host has closed standard input
    pc,           \* where main() is: "read", "handle", "print", "flush", "done"
    line,         \* main()'s local `line`
    nread,        \* number of lines readline() has returned
    consumed,     \* history: those lines, in order
    response,     \* main()'s local `response` / `error_response`
    io,           \* history: the filesystem and codec calls made for `line`
    out,          \* the lines printed to standard output
    flushed       \* how many of them a flush has delivered to the host

vars == <<fs, document, workbook, stdin, stdinClosed, pc, line, nread, consumed, response, io, out, flushed>>

------------------------------------------------------------------------------
(* Bounds of the model *)

\* Number of lines the host writes to the server's standard input in the
\* loop specifications.
MaxLines == 3

------------------------------------------------------------------------------
(* JSON / Python values *)

Absent == "<absent>"
None == "<None>"
JTrue == "<true>"
JFalse == "<false>"

\* dict.get(key, default): v is the member's value, Absent when the key is missing.
Get(v, default) == IF v = Absent THEN default ELSE v

\* Python truthiness of a value (`not x`, `if x:`).
Truthy(v) == v \notin {None, JFalse, ""}

\* JSON-RPC error codes written by the server.
PARSE_ERROR == -32700
METHOD_NOT_FOUND == -32601
INTERNAL_ERROR == -32603

------------------------------------------------------------------------------
(* Paths and the filesystem *)

\* The path strings requests may carry.
PathArgs == {"docs", "docs/a.docx", "b.XLSX", "./c.xls", "d.xlsm", "e.txt"}

\* str(Path(p)): pathlib drops a leading "./".
StrPath(p) == IF p = "./c.xls" THEN "c.xls" ELSE p

Paths == {StrPath(p) : p \in PathArgs}

\* Path(p).suffix
Suffix(p) ==
    CASE StrPath(p) = "docs/a.docx" -> ".docx"
      [] StrPath(p) = "b.XLSX" -> ".XLSX"
      [] StrPath(p) = "c.xls" -> ".xls"
      [] StrPath(p) = "d.xlsm" -> ".xlsm"
      [] StrPath(p) = "e.txt" -> ".txt"
      [] OTHER -> ""

\* Mutant of Lower: the suffix is compared as written.
Lower_Forgotten(s) == s

\* str.lower() on the suffixes above.
Lower(s) == IF s = ".XLSX" THEN ".xlsx" ELSE s

\* Path(p).parent, for the entries that lie in a directory of the universe.
Parent(p) == IF p = "docs/a.docx" THEN "docs" ELSE "."

\* What a path is on disk: nothing, a directory, a well-formed document of the
\* format its suffix names, or a file the codec cannot parse.
Kinds == {"absent", "dir", "file", "corrupt"}

KindsOf(p) ==
    CASE p = "docs" -> {"absent", "dir", "file"}
      [] p \in {"docs/a.docx", "b.XLSX"} -> {"absent", "file", "corrupt"}
      [] OTHER -> {"absent", "file"}

\* The filesystem states: an entry exists only inside an existing directory.
FSStates ==
    {f \in [Paths -> Kinds] :
        /\ \A p \in Paths : f[p] \in KindsOf(p)
        /\ \A p \in Paths : (Parent(p) # "." /\ f[p] # "absent") => f[Parent(p)] = "dir"}

\* Mutant of Exists: the existence check is skipped.
Exists_Unchecked(f, p) == TRUE

\* Path.exists(), Path.is_dir()
\* The working directory "." always exists.
Exists(f, p) == StrPath(p) = "." \/ f[StrPath(p)] # "absent"
IsDir(f, p) == StrPath(p) = "." \/ f[StrPath(p)] = "dir"

\* Whether entry p lies below directory d, at any depth.
RECURSIVE Under(_, _)
Under(p, d) ==
    IF Parent(p) = d THEN TRUE
    ELSE IF Parent(p) = "." THEN FALSE
    ELSE Under(Parent(p), d)

------------------------------------------------------------------------------
(* Python calls: a call returns a value or raises; io lists, in order, the
   tool handlers it entered (<<"call", tool>>) and the filesystem and codec
   calls it made. *)

NoValue == [success |-> FALSE, error |-> <<"<no value>">>]

Return(v, ops) == [raised |-> FALSE, exc |-> [type |-> "", msg |-> <<>>], val |-> v, io |-> ops]
Raise(t, m, ops) == [raised |-> TRUE, exc |-> [type |-> t, msg |-> m], val |-> NoValue, io |-> ops]

\* x.get(...) on a value that is no dict: 'list' / 'NoneType' / ... object has
\* no attribute 'get'.
NoGet(pytype) == Raise("AttributeError", <<"'", pytype, "' object has no attribute 'get'">>, <<>>)

------------------------------------------------------------------------------
(* Document contents: text is a sequence of characters *)

\* Number of paragraphs of a Word document.
MaxParagraphs == 2

\* Number of rows of a worksheet's used range.
MaxRow == 2

\* str.strip()
RECURSIVE lstrip(_)
lstrip(s) == IF s # <<>> /\ Head(s) = " " THEN lstrip(Tail(s)) ELSE s

RECURSIVE rstrip(_)
rstrip(s) == IF s # <<>> /\ s[Len(s)] = " " THEN rstrip(SubSeq(s, 1, Len(s) - 1)) ELSE s

\* Mutant of strip: the text is emitted as stored.
strip_Forgotten(s) == s

strip(s) == rstrip(lstrip(s))

SeqRange(s) == {s[i] : i \in 1..Len(s)}

\* The sequences over S of at most n elements.
SeqsUpTo(S, n) == UNION {[1..m -> S] : m \in 0..n}

\* A run of a paragraph: its text and its bold / italic / underline properties
\* (True, False or None).
Run(text, bold, italic, underline) ==
    [text |-> text, bold |-> bold, italic |-> italic, underline |-> underline]

BlankRun == Run(<<" ">>, None, None, None)
EmptyRun == Run(<<>>, None, None, None)
BoldRun == Run(<<"a", " ">>, JTrue, None, None)
PlainRun == Run(<<" ", "b">>, None, JFalse, JTrue)

RunSeqs == {<<>>, <<BlankRun>>, <<BoldRun>>, <<BlankRun, PlainRun, EmptyRun>>, <<BoldRun, PlainRun>>}

\* A paragraph as python-docx presents it: its style name (None: no style),
\* its alignment (None: inherited), its runs, and the text it holds outside of
\* runs (in a hyperlink).
Paragraph(style, alignment, runs, hyperlink) ==
    [style |-> style, alignment |-> alignment, runs |-> runs, hyperlink |-> hyperlink]

Paragraphs ==
    {Paragraph(fm[1], fm[2], rs, <<>>) :
        fm \in {<<None, None>>, <<"Heading 1", "CENTER (1)">>}, rs \in RunSeqs}
    \cup {Paragraph("Normal", "LEFT (0)", <<>>, <<"c">>),
          Paragraph(None, None, <<BlankRun>>, <<"c", " ">>)}

RECURSIVE JoinRuns(_)
JoinRuns(runs) == IF runs = <<>> THEN <<>> ELSE Head(runs).text \o JoinRuns(Tail(runs))

\* para.text: the text of the runs and of the hyperlinks.
para_text(para) == JoinRuns(para.runs) \o para.hyperlink

\* `if para.alignment`: the enumeration member LEFT has the value 0.
AlignmentTruthy(a) == a \notin {None, "LEFT (0)"}

\* The tables of a document: rows of cell texts.
Table1 == << <<<<" ", "h">>, <<>>>>, <<<<"1">>, <<"2", " ">>>> >>
Table2 == << <<<<"t">>>> >>

TableSeqs == {<<>>, <<Table1>>, <<Table2, Table1>>}

\* What docx.Document(path) returns for a well-formed file.
Docx(paragraphs, tables) == [paragraphs |-> paragraphs, tables |-> tables]

Documents == {Docx(ps, ts) : ps \in SeqsUpTo(Paragraphs, MaxParagraphs), ts \in TableSeqs}

SampleDocument ==
    Docx(<<Paragraph("Heading 1", "CENTER (1)", <<BoldRun>>, <<>>),
           Paragraph(None, None, <<BlankRun>>, <<>>)>>,
         <<Table2>>)

------------------------------------------------------------------------------
(* word_reader.py *)

\* docx.Document(path), openpyxl.load_workbook(path), xlrd.open_workbook(path):
\* the codec parses a well-formed file and raises on anything else.
CodecParses(f, p) == f[StrPath(p)] = "file"

WordReader_supported_formats == <<".docx">>

\* The runs_info list of a paragraph.
runs_info(para) ==
    LET kept == SelectSeq(para.runs, LAMBDA run : strip(run.text) # <<>>)
    IN  [i \in 1..Len(kept) |->
            [text |-> strip(kept[i].text), bold |-> kept[i].bold,
             italic |-> kept[i].italic, underline |-> kept[i].underline]]

\* Mutant of paragraph_data: the runs list is attached even when it is empty.
paragraph_data_AlwaysRuns(para, include_formatting) ==
    IF ~Truthy(include_formatting)
    THEN [text |-> strip(para_text(para))]
    ELSE [text |-> strip(para_text(para)),
          formatting |-> [style |-> IF para.style # None THEN para.style ELSE "Normal",
                          alignment |-> IF AlignmentTruthy(para.alignment)
                                        THEN para.alignment ELSE None],
          runs |-> runs_info(para)]

\* The paragraph_data dictionary of an emitted paragraph.
paragraph_data(para, include_formatting) ==
    LET text == strip(para_text(para))
        formatting == [style |-> IF para.style # None THEN para.style ELSE "Normal",
                       alignment |-> IF AlignmentTruthy(para.alignment)
                                     THEN para.alignment ELSE None]
    IN  IF ~Truthy(include_formatting)
        THEN [text |-> text]
        ELSE IF runs_info(para) = <<>>
        THEN [text |-> text, formatting |-> formatting]
        ELSE [text |-> text, formatting |-> formatting, runs |-> runs_info(para)]

\* The table_data list of a table.
table_data(table) ==
    [r \in 1..Len(table) |-> [c \in 1..Len(table[r]) |-> strip(table[r][c])]]

WordReader_read_word_document(file_path, include_formatting, f) ==
    LET path == StrPath(file_path)
        ex == <<"exists", path>>
        doc == document
        emitted == SelectSeq(doc.paragraphs, LAMBDA para : strip(para_text(para)) # <<>>)
        paragraphs == [i \in 1..Len(emitted) |-> paragraph_data(emitted[i], include_formatting)]
        tables == [i \in 1..Len(doc.tables) |-> table_data(doc.tables[i])]
    IN  IF ~Exists(f, file_path)
        THEN Raise("FileNotFoundError", <<"File not found: ", file_path>>, <<ex>>)
        ELSE IF Lower(Suffix(path)) # ".docx"
        THEN Raise("ValueError", <<"File must be a .docx file, got: ", Suffix(path)>>, <<ex>>)
        ELSE IF CodecParses(f, path)
        THEN Return([success |-> TRUE,
                     file_path |-> path,
                     file_type |-> "Microsoft Word Document (.docx)",
                     paragraphs |-> paragraphs,
                     tables |-> tables,
                     total_paragraphs |-> Len(paragraphs),
                     total_tables |-> Len(tables),
                     formatting_included |-> include_formatting],
                    <<ex, <<"Document", path>> >>)
        ELSE Return([success |-> FALSE, error |-> <<"codec: ", path>>, file_path |-> path],
                    <<ex, <<"Document", path>> >>)

------------------------------------------------------------------------------
(* Workbook contents *)

\* What a cell of a workbook holds: nothing, a text, a formula together with
\* the value the spreadsheet application last computed for it, a number, a
\* boolean, or a date and time: the instant written to the cell as (year, month,
\* day, hour, minute, second) and the serial number the file stores for it.
EmptyCell == [kind |-> "empty", text |-> <<>>, cached |-> <<>>]
TextCell(text) == [kind |-> "text", text |-> text, cached |-> <<>>]
FormulaCell(formula, cached) == [kind |-> "formula", text |-> formula, cached |-> cached]

NumberCell(text) == [kind |-> "number", text |-> text, cached |-> <<>>]
BooleanCell == [kind |-> "boolean", text |-> <<"True">>, cached |-> <<>>]
DateCell(instant, serial) ==
    [kind |-> "date", text |-> <<>>, cached |-> <<>>, instant |-> instant, serial |-> serial]

CellContents ==
    {EmptyCell, TextCell(<<" ", " ">>), TextCell(<<"x">>), FormulaCell(<<"=", "A", "1">>, <<"5">>)}

\* Noon of 5 January 2024, day 45296 of the 1900 date system.
NoonCell == DateCell(<<2024, 1, 5, 12, 0, 0>>, <<"45296.5">>)

\* The cells of a sheet of typed scalars.
ScalarContents == {NoonCell, NumberCell(<<"2.5">>), BooleanCell}

\* The widths of a used range.
Columns == {1, 2}

\* A data validation rule of a worksheet.
ListValidation == [ranges |-> "A1", type |-> "list", operator |-> None, formula1 |-> "a,b"]

Worksheet(title, max_row, max_column, cells) ==
    [title |-> title, max_row |-> max_row, max_column |-> max_column, cells |-> cells,
     data_validations |-> <<ListValidation>>]

\* Sheets of texts and formulas, and sheets of typed scalars.
Worksheets ==
    UNION {{Worksheet("Sheet1", R, C, cells) :
                cells \in [(1..R) \X (1..C) -> CellContents]
                          \cup [(1..R) \X (1..C) -> ScalarContents]} :
           <<R, C>> \in (1..MaxRow) \X Columns}

Book(sheets) == [sheets |-> sheets, creator |-> "openpyxl"]

Workbooks == {Book(<<ws>>) : ws \in Worksheets}

SampleWorkbook ==
    Book(<<Worksheet("Sheet1", 1, 2,
                     [rc \in (1..1) \X (1..2) |->
                         IF rc[2] = 1 THEN TextCell(<<"x">>)
                         ELSE FormulaCell(<<"=", "A", "1">>, <<"5">>)])>>)

\* Python values of cells: the type name and the text str() gives.
PyNone == [t |-> "NoneType", v |-> <<>>]
PyStr(s) == [t |-> "str", v |-> s]
PyFloat(s) == [t |-> "float", v |-> s]
PyBool(s) == [t |-> "bool", v |-> s]
PyInt(s) == [t |-> "int", v |-> s]
PyDatetime(d) == [t |-> "datetime", v |-> d]

\* Two digits, as the %02d of the date and time formats.
Pad2(n) == IF n < 10 THEN "0" \o ToString(n) ELSE ToString(n)

\* The date and the time of day of a datetime, as its text forms write them.
DatePart(d) == ToString(d[1]) \o "-" \o Pad2(d[2]) \o "-" \o Pad2(d[3])
TimePart(d) == Pad2(d[4]) \o ":" \o Pad2(d[5]) \o ":" \o Pad2(d[6])

\* datetime.isoformat()
isoformat(d) == DatePart(d) \o "T" \o TimePart(d)

\* str(value): a datetime prints with a space between date and time.
str(value) ==
    IF value.t = "datetime" THEN <<DatePart(value.v) \o " " \o TimePart(value.v)>> ELSE value.v

\* openpyxl.utils.get_column_letter
get_column_letter(col) ==
    CASE col = 1 -> "A"
      [] col = 2 -> "B"
      [] col = 3 -> "C"

\* f"{get_column_letter(col)}{row}"
cell_ref(row, col) == get_column_letter(col) \o ToString(row)

\* The cells of a used range in the order of the two nested loops.
RowMajor(max_row, max_column) ==
    [k \in 1..(max_row * max_column) |->
        <<((k - 1) \div max_column) + 1, ((k - 1) % max_column) + 1>>]

\* worksheet.cell(row, column) of openpyxl: with data_only the value of a
\* formula cell is its cached result, without it the formula text.
openpyxl_cell(worksheet, row, col, data_only) ==
    LET c == worksheet.cells[<<row, col>>]
    IN  CASE c.kind = "empty" -> [value |-> PyNone, data_type |-> "n"]
          [] c.kind = "text" -> [value |-> PyStr(c.text), data_type |-> "s"]
          [] c.kind = "formula" ->
                IF data_only
                THEN [value |-> PyFloat(c.cached), data_type |-> "n"]
                ELSE [value |-> PyStr(c.text), data_type |-> "f"]
          [] c.kind = "number" -> [value |-> PyFloat(c.text), data_type |-> "n"]
          [] c.kind = "boolean" -> [value |-> PyBool(c.text), data_type |-> "b"]
          [] c.kind = "date" -> [value |-> PyDatetime(c.instant), data_type |-> "d"]

\* worksheet.cell_value(row, col) and worksheet.cell_type(row, col) of xlrd: an
\* empty cell has the value '', a formula cell has the value and the type of
\* its cached result, a boolean is the integer 1 or 0 and a date is the float
\* serial number stored in the file.
xlrd_cell(worksheet, row, col) ==
    LET c == worksheet.cells[<<row, col>>]
    IN  CASE c.kind = "empty" -> [value |-> PyStr(<<>>), ctype |-> 0]
          [] c.kind = "text" -> [value |-> PyStr(c.text), ctype |-> 1]
          [] c.kind = "formula" -> [value |-> PyFloat(c.cached), ctype |-> 2]
          [] c.kind = "number" -> [value |-> PyFloat(c.text), ctype |-> 2]
          [] c.kind = "boolean" -> [value |-> PyInt(<<"1">>), ctype |-> 4]
          [] c.kind = "date" -> [value |-> PyFloat(c.serial), ctype |-> 3]

------------------------------------------------------------------------------
(* excel_reader.py *)

ExcelReader_supported_formats == <<".xlsx", ".xls", ".xlsm">>

\* Mutant of data_only: the workbook is opened with data_only=True.
data_only_On == TRUE

\* The workbook is opened with data_only=False.
data_only == FALSE

_get_cell_value(cell) ==
    IF cell.value = PyNone THEN PyNone
    ELSE IF cell.value.t = "datetime" THEN PyStr(<<isoformat(cell.value.v)>>)
    ELSE cell.value

_extract_cell_formatting(cell) ==
    [font |-> "<font>", fill |-> <<>>, border |-> "<border>", alignment |-> "<alignment>",
     number_format |-> "General"]

_extract_xls_cell_formatting(worksheet, row, col) ==
    [xf_index |-> "<xf_index>", note |-> "Limited formatting support for .xls files"]

_extract_validation_rules(worksheet) ==
    [r \in {worksheet.data_validations[i].ranges : i \in 1..Len(worksheet.data_validations)} |->
        LET v == CHOOSE v \in SeqRange(worksheet.data_validations) : v.ranges = r
        IN  [type |-> v.type, operator |-> v.operator, formula1 |-> v.formula1]]

_extract_worksheet_data(worksheet, include_formatting, include_formulas, include_validation) ==
    LET max_row == worksheet.max_row
        max_col == worksheet.max_column
        visited == RowMajor(max_row, max_col)
        cell(rc) == openpyxl_cell(worksheet, rc[1], rc[2], data_only)
        ref(rc) == cell_ref(rc[1], rc[2])
        cell_data(rc) == [reference |-> ref(rc), row |-> rc[1], column |-> rc[2],
                          value |-> _get_cell_value(cell(rc)), data_type |-> cell(rc).value.t]
        kept == SelectSeq(visited,
                          LAMBDA rc : cell(rc).value # PyNone /\ strip(str(cell(rc).value)) # <<>>)
        cells_data == [i \in 1..Len(kept) |-> cell_data(kept[i])]
        formulas == [r \in {ref(rc) : rc \in {x \in SeqRange(visited) : cell(x).data_type = "f"}} |->
                        LET rc == CHOOSE x \in SeqRange(visited) : ref(x) = r
                        IN  [formula |-> cell(rc).value,
                             calculated_value |-> _get_cell_value(cell(rc))]]
        formatting_info == [r \in {ref(rc) : rc \in SeqRange(visited)} |->
                               LET rc == CHOOSE x \in SeqRange(visited) : ref(x) = r
                               IN  _extract_cell_formatting(cell(rc))]
    IN  [name |-> worksheet.title,
         dimensions |-> [max_row |-> max_row, max_column |-> max_col,
                         used_range |-> "A1:" \o cell_ref(max_row, max_col)],
         cells |-> cells_data,
         total_cells |-> Len(cells_data),
         formulas |-> IF Truthy(include_formulas) THEN formulas ELSE <<>>,
         formatting |-> IF Truthy(include_formatting) THEN formatting_info ELSE <<>>,
         data_validation |-> IF Truthy(include_validation)
                             THEN _extract_validation_rules(worksheet) ELSE <<>>]

\* The loop of _extract_xls_worksheet_data: empty cells are skipped before
\* anything is recorded for them. The module xlrd defines the cell types
\* XL_CELL_EMPTY, _TEXT, _NUMBER, _DATE, _BOOLEAN, _ERROR and _BLANK and no
\* XL_CELL_FORMULA: reading that attribute raises AttributeError, at the first
\* cell that is not skipped when formulas are requested.
_extract_xls_worksheet_data(worksheet, include_formatting, include_formulas, include_validation) ==
    LET visited == RowMajor(worksheet.max_row, worksheet.max_column)
        cell(rc) == xlrd_cell(worksheet, rc[1], rc[2])
        ref(rc) == cell_ref(rc[1], rc[2])
        kept == SelectSeq(visited, LAMBDA rc : cell(rc).value \notin {PyStr(<<>>), PyNone})
        cells_data == [i \in 1..Len(kept) |->
                          [reference |-> ref(kept[i]), row |-> kept[i][1], column |-> kept[i][2],
                           value |-> cell(kept[i]).value, data_type |-> cell(kept[i]).ctype]]
        formatting_info == [r \in {ref(rc) : rc \in SeqRange(kept)} |->
                               LET rc == CHOOSE x \in SeqRange(kept) : ref(x) = r
                               IN  _extract_xls_cell_formatting(worksheet, rc[1], rc[2])]
    IN  IF Truthy(include_formulas) /\ kept # <<>>
        THEN Raise("AttributeError", <<"module 'xlrd' has no attribute 'XL_CELL_FORMULA'">>, <<>>)
        ELSE Return([name |-> worksheet.title,
                     dimensions |-> [max_row |-> worksheet.max_row,
                                     max_column |-> worksheet.max_column,
                                     used_range |-> "A1:" \o cell_ref(worksheet.max_row,
                                                                      worksheet.max_column)],
                     cells |-> cells_data,
                     total_cells |-> Len(cells_data),
                     formulas |-> <<>>,
                     formatting |-> IF Truthy(include_formatting) THEN formatting_info ELSE <<>>,
                     data_validation |-> <<>>],
                    <<>>)

ExcelReader_read_xlsx_file(path, include_formatting, include_formulas, include_validation, f, ops) ==
    LET ops2 == Append(ops, <<"load_workbook", path>>)
        wb == workbook
    IN  IF CodecParses(f, path)
        THEN Return([success |-> TRUE,
                     file_path |-> path,
                     file_type |-> "Excel Workbook (.xlsx/.xlsm)",
                     worksheets |-> [i \in 1..Len(wb.sheets) |->
                                        _extract_worksheet_data(wb.sheets[i], include_formatting,
                                                                include_formulas,
                                                                include_validation)],
                     workbook_info |-> [total_sheets |-> Len(wb.sheets),
                                        sheet_names |-> [i \in 1..Len(wb.sheets) |->
                                                            wb.sheets[i].title],
                                        creator |-> wb.creator,
                                        created |-> None,
                                        modified |-> None]],
                    ops2)
        ELSE Raise("Exception", <<"codec: ", path>>, ops2)

\* The result of _read_xls_file from the outcomes of its calls of
\* _extract_xls_worksheet_data: the first one that raises ends the loop.
xls_result(path, wb, sheets, ops) ==
    LET failed == {i \in 1..Len(sheets) : sheets[i].raised}
    IN  IF failed # {}
        THEN Raise(sheets[CHOOSE i \in failed : \A j \in failed : i <= j].exc.type,
                   sheets[CHOOSE i \in failed : \A j \in failed : i <= j].exc.msg,
                   ops)
        ELSE Return([success |-> TRUE,
                     file_path |-> path,
                     file_type |-> "Excel Workbook (.xls)",
                     worksheets |-> [i \in 1..Len(sheets) |-> sheets[i].val],
                     workbook_info |-> [total_sheets |-> Len(wb.sheets),
                                        sheet_names |-> [i \in 1..Len(wb.sheets) |->
                                                            wb.sheets[i].title],
                                        created |-> None,
                                        modified |-> None]],
                    ops)

ExcelReader_read_xls_file(path, include_formatting, include_formulas, include_validation, f, ops) ==
    IF ~CodecParses(f, path)
    THEN Raise("Exception", <<"codec: ", path>>, Append(ops, <<"open_workbook", path>>))
    ELSE xls_result(path, workbook,
                    [i \in 1..Len(workbook.sheets) |->
                        _extract_xls_worksheet_data(workbook.sheets[i], include_formatting,
                                                    include_formulas, include_validation)],
                    Append(ops, <<"open_workbook", path>>))

\* except Exception as e: return {"success": False, "error": str(e), "file_path": str(path)}
ExcelReader_except(r, path) ==
    IF r.raised
    THEN Return([success |-> FALSE, error |-> r.exc.msg, file_path |-> path], r.io)
    ELSE r

ExcelReader_read_excel_file(file_path, include_formatting, include_formulas, include_validation, f) ==
    LET path == StrPath(file_path)
        ex == <<"exists", path>>
        sfx == Lower(Suffix(path))
    IN  IF ~Exists(f, file_path)
        THEN Raise("FileNotFoundError", <<"File not found: ", file_path>>, <<ex>>)
        ELSE IF sfx \notin SeqRange(ExcelReader_supported_formats)
        THEN Raise("ValueError",
                   <<"Unsupported Excel format: ", Suffix(path), ". Supported: ">>
                       \o ExcelReader_supported_formats,
                   <<ex>>)
        ELSE ExcelReader_except(IF sfx \in {".xlsx", ".xlsm"}
                                THEN ExcelReader_read_xlsx_file(path, include_formatting,
                                                                include_formulas,
                                                                include_validation, f, <<ex>>)
                                ELSE ExcelReader_read_xls_file(path, include_formatting,
                                                               include_formulas,
                                                               include_validation, f, <<ex>>),
                                path)

------------------------------------------------------------------------------
(* ai_file_bridge_server.py: AIFileBridgeServer *)

server_name == "ai-file-bridge"
version == "2.0.0"

\* self.supported_formats: the keys in insertion order, and the labels.
supported_formats_keys == <<".docx", ".xlsx", ".xls", ".xlsm">>

supported_formats(ext) ==
    CASE ext = ".docx" -> "Microsoft Word Document"
      [] ext = ".xlsx" -> "Microsoft Excel Workbook"
      [] ext = ".xls" -> "Microsoft Excel Workbook (Legacy)"
      [] ext = ".xlsm" -> "Microsoft Excel Macro-Enabled Workbook"

\* The names _handle_tools_call dispatches on.
ToolNames == {"read_document", "read_excel_file", "read_word_document",
              "list_supported_files", "get_supported_formats"}

\* except Exception as e: return {"success": False, "error": str(e), "file_path": file_path}
Envelope(r, file_path) ==
    IF r.raised
    THEN Return([success |-> FALSE, error |-> r.exc.msg, file_path |-> file_path], r.io)
    ELSE r

_read_excel_file(arguments, f) ==
    IF arguments.type # "dict" THEN NoGet(arguments.type)
    ELSE LET file_path == Get(arguments.file_path, None)
             include_formatting == Get(arguments.include_formatting, JTrue)
             include_formulas == Get(arguments.include_formulas, JTrue)
             include_validation == Get(arguments.include_validation, JTrue)
         IN  IF ~Truthy(file_path)
             THEN Raise("ValueError", <<"file_path is required">>, <<>>)
             ELSE Envelope(ExcelReader_read_excel_file(file_path, include_formatting,
                                                       include_formulas, include_validation, f),
                           file_path)

\* Mutant of _read_word_document: file_path is not checked before the reader is
\* called (Path(None) raises inside the try).
_read_word_document_Unchecked(arguments, f) ==
    IF arguments.type # "dict" THEN NoGet(arguments.type)
    ELSE LET file_path == Get(arguments.file_path, None)
             include_formatting == Get(arguments.include_formatting, JFalse)
         IN  IF ~Truthy(file_path)
             THEN Return([success |-> FALSE, error |-> <<"TypeError">>, file_path |-> file_path],
                         <<>>)
             ELSE Envelope(WordReader_read_word_document(file_path, include_formatting, f),
                           file_path)

_read_word_document(arguments, f) ==
    IF arguments.type # "dict" THEN NoGet(arguments.type)
    ELSE LET file_path == Get(arguments.file_path, None)
             include_formatting == Get(arguments.include_formatting, JFalse)
         IN  IF ~Truthy(file_path)
             THEN Raise("ValueError", <<"file_path is required">>, <<>>)
             ELSE Envelope(WordReader_read_word_document(file_path, include_formatting, f),
                           file_path)

\* Prefix the calls a handler made before it delegated.
After(ops, r) == [r EXCEPT !.io = ops \o @]

_read_document(arguments, f) ==
    IF arguments.type # "dict" THEN NoGet(arguments.type)
    ELSE LET file_path == Get(arguments.file_path, None)
             ex == <<"exists", StrPath(file_path)>>
             file_extension == Lower(Suffix(file_path))
         IN  IF ~Truthy(file_path)
             THEN Raise("ValueError", <<"file_path is required">>, <<>>)
             ELSE IF ~Exists(f, file_path)
             THEN Raise("FileNotFoundError", <<"File not found: ", file_path>>, <<ex>>)
             ELSE IF file_extension = ".docx"
             THEN After(<<ex, <<"call", "read_word_document">> >>,
                        _read_word_document(arguments, f))
             ELSE IF file_extension \in {".xlsx", ".xls", ".xlsm"}
             THEN After(<<ex, <<"call", "read_excel_file">> >>,
                        _read_excel_file(arguments, f))
             ELSE Raise("ValueError",
                        <<"Unsupported file format: ", file_extension, ". Supported formats: ">>
                            \o supported_formats_keys,
                        <<ex>>)

\* Mutant of RGlob: path.glob("*"), the entries of the directory itself.
RGlob_TopLevel(f, dir) == {p \in Paths : Parent(p) = StrPath(dir) /\ f[p] # "absent"}

\* path.rglob("*"): every entry below the directory, at any depth.
RGlob(f, dir) == {p \in Paths : Under(p, StrPath(dir)) /\ f[p] # "absent"}

_list_supported_files(arguments, f) ==
    IF arguments.type # "dict" THEN NoGet(arguments.type)
    ELSE LET directory_path == Get(arguments.directory_path, ".")
             ex == <<"exists", StrPath(directory_path)>>
             isd == <<"is_dir", StrPath(directory_path)>>
         IN  IF ~Exists(f, directory_path)
             THEN Raise("FileNotFoundError", <<"Directory not found: ", directory_path>>, <<ex>>)
             ELSE IF ~IsDir(f, directory_path)
             THEN Raise("ValueError", <<"Path is not a directory: ", directory_path>>, <<ex, isd>>)
             ELSE LET found == {p \in RGlob(f, directory_path) :
                                   /\ f[p] \in {"file", "corrupt"}
                                   /\ Lower(Suffix(p)) \in SeqRange(supported_formats_keys)}
                  IN  Return([success |-> TRUE,
                              directory |-> StrPath(directory_path),
                              supported_files |->
                                  {[path |-> p,
                                    format |-> Lower(Suffix(p)),
                                    format_description |-> supported_formats(Lower(Suffix(p)))]
                                   : p \in found},
                              count |-> Cardinality(found),
                              supported_formats |-> supported_formats_keys],
                             <<ex, isd, <<"rglob", StrPath(directory_path)>> >>)

\* Mutant of _get_supported_formats: only the formats found on disk are listed.
_get_supported_formats_OnDisk(arguments, f) ==
    LET keys == SelectSeq(supported_formats_keys,
                          LAMBDA ext : \E p \in Paths : Lower(Suffix(p)) = ext /\ f[p] = "file")
    IN  Return([success |-> TRUE,
                supported_formats |-> [i \in 1..Len(keys) |->
                                          <<keys[i], supported_formats(keys[i])>>],
                total_formats |-> Len(keys)],
               <<>>)

_get_supported_formats(arguments, f) ==
    Return([success |-> TRUE,
            supported_formats |-> [i \in 1..Len(supported_formats_keys) |->
                                      <<supported_formats_keys[i],
                                        supported_formats(supported_formats_keys[i])>>],
            total_formats |-> Len(supported_formats_keys)],
           <<>>)

\* json.dumps(result, indent=2, ensure_ascii=False, default=str): the JSON text
\* of a tool payload.
JsonDumps(payload) == [json |-> payload]

\* The tools/list catalog: each tool's name, its properties with their declared
\* defaults (Absent: none declared) and its required properties.
ToolCatalog ==
    << [name |-> "read_document",
        properties |-> << <<"file_path", Absent>>, <<"include_formatting", JTrue>>,
                          <<"include_formulas", JTrue>>, <<"include_validation", JTrue>> >>,
        required |-> <<"file_path">>],
       [name |-> "read_excel_file",
        properties |-> << <<"file_path", Absent>>, <<"include_formatting", JTrue>>,
                          <<"include_formulas", JTrue>>, <<"include_validation", JTrue>> >>,
        required |-> <<"file_path">>],
       [name |-> "read_word_document",
        properties |-> << <<"file_path", Absent>>, <<"include_formatting", JFalse>> >>,
        required |-> <<"file_path">>],
       [name |-> "list_supported_files",
        properties |-> << <<"directory_path", ".">> >>,
        required |-> <<>>],
       [name |-> "get_supported_formats",
        properties |-> <<>>,
        required |-> <<>>] >>

ErrorResponse(id, code, message) ==
    [jsonrpc |-> "2.0", id |-> id, error |-> [code |-> code, message |-> message]]

\* The empty dict {} that request.get("params", {}) and
\* params.get("arguments", {}) default to.
NoArguments(t) ==
    [type |-> t, file_path |-> Absent, include_formatting |-> Absent,
     include_formulas |-> Absent, include_validation |-> Absent, directory_path |-> Absent]

NoParams(t) == [type |-> t, id |-> Absent, name |-> Absent, arguments |-> NoArguments("absent")]

\* Mutant of ToolNotFound: the unknown name is reported as an internal error.
ToolNotFound_Internal(id, tool_name) ==
    ErrorResponse(id, INTERNAL_ERROR, <<"Internal error: ", tool_name>>)

\* The else branch of _handle_tools_call's dispatch.
ToolNotFound(id, tool_name) ==
    ErrorResponse(id, METHOD_NOT_FOUND, <<"Tool not found: ", tool_name>>)

\* Mutant of _handle_initialize: the server info echoes the id of the params.
_handle_initialize_Echo(params) ==
    IF params.type # "dict" THEN NoGet(params.type)
    ELSE Return([jsonrpc |-> "2.0",
                 id |-> Get(params.id, None),
                 result |-> [protocolVersion |-> "2024-11-05",
                             capabilities |-> [tools |-> <<>>],
                             serverInfo |-> [name |-> server_name, version |-> version,
                                             client |-> Get(params.id, None)]]],
                <<>>)

_handle_initialize(params) ==
    IF params.type # "dict" THEN NoGet(params.type)
    ELSE Return([jsonrpc |-> "2.0",
                 id |-> Get(params.id, None),
                 result |-> [protocolVersion |-> "2024-11-05",
                             capabilities |-> [tools |-> <<>>],
                             serverInfo |-> [name |-> server_name, version |-> version]]],
                <<>>)

_handle_tools_list ==
    Return([jsonrpc |-> "2.0", result |-> [tools |-> ToolCatalog]], <<>>)

\* Mutant of Dispatch: get_supported_formats is routed to the handler of
\* read_document.
Dispatch_Misrouted(tool_name, arguments, f) ==
    CASE tool_name = "read_document" -> _read_document(arguments, f)
      [] tool_name = "read_excel_file" -> _read_excel_file(arguments, f)
      [] tool_name = "read_word_document" -> _read_word_document(arguments, f)
      [] tool_name = "list_supported_files" -> _list_supported_files(arguments, f)
      [] tool_name = "get_supported_formats" -> _read_document(arguments, f)

\* The tool handler _handle_tools_call runs for a registered name.
Dispatch(tool_name, arguments, f) ==
    CASE tool_name = "read_document" -> _read_document(arguments, f)
      [] tool_name = "read_excel_file" -> _read_excel_file(arguments, f)
      [] tool_name = "read_word_document" -> _read_word_document(arguments, f)
      [] tool_name = "list_supported_files" -> _list_supported_files(arguments, f)
      [] tool_name = "get_supported_formats" -> _get_supported_formats(arguments, f)

\* Mutant of ToolResponse: the error of the except clause is sent along with
\* an empty result.
ToolResponse_Both(id, r) ==
    IF r.raised
    THEN Return([jsonrpc |-> "2.0",
                 id |-> id,
                 result |-> [content |-> <<>>],
                 error |-> [code |-> INTERNAL_ERROR,
                            message |-> <<"Internal error: ">> \o r.exc.msg]],
                r.io)
    ELSE Return([jsonrpc |-> "2.0",
                 id |-> id,
                 result |-> [content |-> << [type |-> "text", text |-> JsonDumps(r.val)] >>]],
                r.io)

\* The end of _handle_tools_call: the result that wraps the tool's payload, or
\* the error its except clause builds.
ToolResponse(id, r) ==
    IF r.raised
    THEN Return(ErrorResponse(id, INTERNAL_ERROR, <<"Internal error: ">> \o r.exc.msg), r.io)
    ELSE Return([jsonrpc |-> "2.0",
                 id |-> id,
                 result |-> [content |-> << [type |-> "text", text |-> JsonDumps(r.val)] >>]],
                r.io)

_handle_tools_call(params, f) ==
    IF params.type # "dict" THEN NoGet(params.type)
    ELSE LET tool_name == Get(params.name, None)
             arguments == IF params.arguments.type = "absent"
                          THEN NoArguments("dict") ELSE params.arguments
             id == Get(params.id, None)
         IN  IF tool_name \notin ToolNames
             THEN Return(ToolNotFound(id, tool_name), <<>>)
             ELSE ToolResponse(id, After(<< <<"call", tool_name>> >>,
                                         Dispatch(tool_name, arguments, f)))

handle_request(request, f) ==
    IF request.type # "dict" THEN NoGet(request.type)
    ELSE LET method == Get(request.method, None)
             params == IF request.params.type = "absent" THEN NoParams("dict") ELSE request.params
         IN  CASE method = "initialize" -> _handle_initialize(params)
               [] method = "tools/list" -> _handle_tools_list
               [] method = "tools/call" -> _handle_tools_call(params, f)
               [] OTHER -> Return(ErrorResponse(Get(request.id, None), METHOD_NOT_FOUND,
                                                <<"Method not found: ", method>>),
                                  <<>>)

------------------------------------------------------------------------------
(* Request lines *)

Args(file_path, include_formatting, include_formulas, include_validation, directory_path) ==
    [type |-> "dict", file_path |-> file_path, include_formatting |-> include_formatting,
     include_formulas |-> include_formulas, include_validation |-> include_validation,
     directory_path |-> directory_path]

Params(id, name, arguments) == [type |-> "dict", id |-> id, name |-> name, arguments |-> arguments]

Req(id, method, params) == [type |-> "dict", id |-> id, method |-> method, params |-> params]

\* A JSON value that is no object: its Python type after json.loads.
NonObject(t) == [type |-> t, id |-> Absent, method |-> Absent, params |-> NoParams("absent")]

\* A line of standard input (without its newline): raw is "json" for the
\* RFC 8259 text of `value`, and otherwise the text itself.
JsonLine(v) == [raw |-> "json", value |-> v]
RawLine(text, t) == [raw |-> text, value |-> NonObject(t)]

EmptyLine == RawLine("", "none")
BlankLine == RawLine("   ", "none")
MalformedLine == RawLine("{bad", "none")
NaNLine == RawLine("NaN", "float")

\* str.strip() of a line's text.
Strip(text) == IF text = "   " THEN "" ELSE text

\* json.loads(text): raises JSONDecodeError, or returns the value. It accepts the
\* literal NaN, which is no RFC 8259 JSON, as a float.
JsonLoads(text, value) ==
    IF text \in {"", "   ", "{bad"}
    THEN Raise("JSONDecodeError", <<"Expecting value">>, <<>>)
    ELSE Return(value, <<>>)

FilePathArgs == {Absent, None, ""} \cup PathArgs
FlagArgs == {Absent, JTrue, JFalse}
OffArgs == {Absent, JFalse}
ParamIds == {Absent, "7"}

RawLines == {EmptyLine, BlankLine, MalformedLine, NaNLine}

NonObjectLines == {JsonLine(NonObject(t)) : t \in {"list", "int", "str", "NoneType"}}

\* Requests of every method, with params absent, a mapping, or not a mapping.
MethodLines ==
    {JsonLine(Req(id, m, ps)) :
        id \in {Absent, "1"},
        m \in {Absent, "initialize", "tools/list", "tools/call", "foo"},
        ps \in {NoParams("absent"), NoParams("NoneType"), NoParams("list")}
               \cup {Params(pid, Absent, NoArguments("absent")) : pid \in ParamIds}}

\* The arguments a tools/call of each tool is tried with.
ArgsFor(name) ==
    {NoArguments("absent"), NoArguments("NoneType"), NoArguments("list")} \cup
    CASE name \in {"read_document", "read_excel_file"} ->
            {Args(fp, a, b, c, Absent) :
                fp \in FilePathArgs, a \in FlagArgs, b \in OffArgs, c \in OffArgs}
      [] name = "read_word_document" ->
            {Args(fp, a, Absent, Absent, Absent) : fp \in FilePathArgs, a \in FlagArgs}
      [] name = "list_supported_files" ->
            {Args(Absent, Absent, Absent, Absent, d) : d \in {Absent} \cup PathArgs}
      [] OTHER ->
            {Args(fp, Absent, Absent, Absent, Absent) : fp \in {Absent, "e.txt", "b.XLSX"}}

ToolCallLines ==
    UNION {{JsonLine(Req("1", "tools/call", Params(pid, name, a))) :
                pid \in ParamIds, a \in ArgsFor(name)} :
           name \in ToolNames \cup {Absent, "bogus"}}

\* The lines of the single-request specification.
CallLines == RawLines \cup NonObjectLines \cup MethodLines \cup ToolCallLines

\* The lines of the loop specification: one or two of every failure tier.
LoopLines ==
    {EmptyLine, BlankLine, MalformedLine, NaNLine,
     JsonLine(NonObject("list")),
     JsonLine(Req("1", "initialize", NoParams("NoneType"))),
     JsonLine(Req("1", "tools/call", NoParams("list"))),
     JsonLine(Req("1", "tools/call", Params("7", "bogus", NoArguments("absent")))),
     JsonLine(Req("1", "tools/call", Params("7", "read_word_document", NoArguments("absent")))),
     JsonLine(Req("1", "tools/call", Params("7", "get_supported_formats", NoArguments("list")))),
     JsonLine(Req("1", "tools/call",
                  Params("7", "read_document", Args("e.txt", Absent, Absent, Absent, Absent)))),
     JsonLine(Req("1", "tools/call",
                  Params("7", "read_excel_file", Args("b.XLSX", Absent, Absent, Absent, Absent))))}

\* The filesystems of the loop specification.
LoopFS == {f \in FSStates : f["docs"] = "absent" /\ f["c.xls"] = "absent" /\ f["d.xlsm"] = "absent"
                            /\ (f["e.txt"] = "file" <=> f["b.XLSX"] = "absent")}

------------------------------------------------------------------------------
(* main(): the stdio loop *)

NoLine == RawLine("<no line>", "none")
NoResponse == [jsonrpc |-> "<no response>"]

\* Mutant of except_JSONDecodeError: one handler reports every failure alike.
except_JSONDecodeError_Internal(msg) ==
    ErrorResponse(None, INTERNAL_ERROR, <<"Internal error: ">> \o msg)

\* except json.JSONDecodeError as e
except_JSONDecodeError(msg) == ErrorResponse(None, PARSE_ERROR, <<"Parse error: ">> \o msg)

\* Mutant of except_Exception: the failure is reported as a parse error.
except_Exception_Parse(msg) == ErrorResponse(None, PARSE_ERROR, <<"Parse error: ">> \o msg)

\* except Exception as e
except_Exception(msg) == ErrorResponse(None, INTERNAL_ERROR, <<"Internal error: ">> \o msg)

\* What main() prints once handle_request has returned or raised.
Respond(r) ==
    IF r.raised
    THEN [response |-> except_Exception(r.exc.msg), io |-> r.io]
    ELSE [response |-> r.val, io |-> r.io]

\* The body of the try block after readline, with its except clauses: the
\* response main() prints for a line, and the calls made to compute it.
Process(l, f) ==
    LET request == JsonLoads(Strip(l.raw), l.value)
    IN  IF request.raised
        THEN [response |-> except_JSONDecodeError(request.exc.msg), io |-> <<>>]
        ELSE Respond(handle_request(request.val, f))

Init ==
    /\ fs \in LoopFS
    /\ document = SampleDocument
    /\ workbook = SampleWorkbook
    /\ stdin = <<>>
    /\ stdinClosed = FALSE
    /\ pc = "read"
    /\ line = NoLine
    /\ nread = 0
    /\ consumed = <<>>
    /\ response = NoResponse
    /\ io = <<>>
    /\ out = <<>>
    /\ flushed = 0

\* The host writes a line to the server's standard input.
Feed ==
    /\ ~stdinClosed
    /\ nread + Len(stdin) < MaxLines
    /\ \E l \in LoopLines : stdin' = Append(stdin, l)
    /\ UNCHANGED <<fs, document, workbook, stdinClosed, pc, line, nread, consumed, response, io, out, flushed>>

\* The host closes the server's standard input.
CloseStdin ==
    /\ ~stdinClosed
    /\ stdinClosed' = TRUE
    /\ UNCHANGED <<fs, document, workbook, stdin, pc, line, nread, consumed, response, io, out, flushed>>

\* Mutant of ReadLine: the end-of-stream test is made on the stripped line, so
\* a blank line ends the loop.
ReadLine_BreakOnBlank ==
    /\ pc = "read"
    /\ stdin # <<>>
    /\ line' = Head(stdin)
    /\ stdin' = Tail(stdin)
    /\ nread' = nread + 1
    /\ consumed' = Append(consumed, Head(stdin))
    /\ pc' = IF Strip(Head(stdin).raw) = "" THEN "done" ELSE "handle"
    /\ UNCHANGED <<fs, document, workbook, stdinClosed, response, io, out, flushed>>

\* line = sys.stdin.readline() returns a line (with its newline: never empty).
ReadLine ==
    /\ pc = "read"
    /\ stdin # <<>>
    /\ line' = Head(stdin)
    /\ stdin' = Tail(stdin)
    /\ nread' = nread + 1
    /\ consumed' = Append(consumed, Head(stdin))
    /\ pc' = "handle"
    /\ UNCHANGED <<fs, document, workbook, stdinClosed, response, io, out, flushed>>

\* Mutant of ReadEOF: the loop does not break at end-of-stream and polls again.
ReadEOF_Continue ==
    /\ pc = "read"
    /\ stdin = <<>>
    /\ stdinClosed
    /\ UNCHANGED vars

\* readline() returns "" at end-of-stream: `if not line: break`.
ReadEOF ==
    /\ pc = "read"
    /\ stdin = <<>>
    /\ stdinClosed
    /\ pc' = "done"
    /\ UNCHANGED <<fs, document, workbook, stdin, stdinClosed, line, nread, consumed, response, io, out, flushed>>

\* Mutant of HandleLine: the server remembers the lines it has answered and
\* refuses a line it has seen before.
HandleLine_Remembering ==
    /\ pc = "handle"
    /\ response' = IF \E k \in 1..Len(out) : consumed[k] = line
                   THEN except_Exception(<<"already handled">>)
                   ELSE Process(line, fs).response
    /\ io' = Process(line, fs).io
    /\ pc' = "print"
    /\ UNCHANGED <<fs, document, workbook, stdin, stdinClosed, line, nread, consumed, out, flushed>>

\* json.loads, handle_request and the except clauses up to their print.
HandleLine ==
    /\ pc = "handle"
    /\ response' = Process(line, fs).response
    /\ io' = Process(line, fs).io
    /\ pc' = "print"
    /\ UNCHANGED <<fs, document, workbook, stdin, stdinClosed, line, nread, consumed, out, flushed>>

\* print(json.dumps(response))
PrintResponse ==
    /\ pc = "print"
    /\ out' = Append(out, response)
    /\ pc' = "flush"
    /\ UNCHANGED <<fs, document, workbook, stdin, stdinClosed, line, nread, consumed, response, io, flushed>>

\* Mutant of Flush: the response is left in the output buffer.
Flush_Forgotten ==
    /\ pc = "flush"
    /\ pc' = "read"
    /\ UNCHANGED <<fs, document, workbook, stdin, stdinClosed, line, nread, consumed, response, io, out, flushed>>

\* sys.stdout.flush(), and back to the top of the loop
Flush ==
    /\ pc = "flush"
    /\ flushed' = Len(out)
    /\ pc' = "read"
    /\ UNCHANGED <<fs, document, workbook, stdin, stdinClosed, line, nread, consumed, response, io, out>>

ServerStep == ReadLine \/ ReadEOF \/ HandleLine \/ PrintResponse \/ Flush

Next == Feed \/ CloseStdin \/ ReadLine \/ ReadEOF \/ HandleLine \/ PrintResponse \/ Flush

\* The loop, fed up to MaxLines lines.
Spec == Init /\ [][Next]_vars

\* The lines of the fair specification: a parse failure, an uncaught failure
\* and a tool call that is answered with a result.
LiveLines ==
    {EmptyLine,
     JsonLine(NonObject("list")),
     JsonLine(Req("1", "tools/call",
                  Params("7", "get_supported_formats", NoArguments("absent"))))}

FeedLive ==
    /\ ~stdinClosed
    /\ nread + Len(stdin) < MaxLines
    /\ \E l \in LiveLines : stdin' = Append(stdin, l)
    /\ UNCHANGED <<fs, document, workbook, stdinClosed, pc, line, nread, consumed, response, io, out, flushed>>

NextLive == FeedLive \/ CloseStdin \/ ReadLine \/ ReadEOF \/ HandleLine \/ PrintResponse \/ Flush

\* The loop under the scheduling of the event loop: main() is its only task and
\* every call it makes returns, so a step of main() that can be taken is taken.
FairSpec == Init /\ [][NextLive]_vars /\ WF_vars(ServerStep)

\* The response of the line was built by one of the except clauses of main():
\* its print and flush are the ones inside that clause.
InExcept(l, f) ==
    \/ JsonLoads(Strip(l.raw), l.value).raised
    \/ /\ ~JsonLoads(Strip(l.raw), l.value).raised
       /\ handle_request(JsonLoads(Strip(l.raw), l.value).val, f).raised

\* The text of the OSError a closed pipe raises on a write.
BrokenPipe == <<"[Errno 32] Broken pipe">>

\* print(json.dumps(response)) in the try block raises: the output stream
\* rejects the write, and `except Exception` builds its error response.
PrintRejected ==
    /\ pc = "print"
    /\ ~InExcept(line, fs)
    /\ response' = except_Exception(BrokenPipe)
    /\ pc' = "except"
    /\ UNCHANGED <<fs, document, workbook, stdin, stdinClosed, line, nread, consumed, io, out, flushed>>

\* sys.stdout.flush() in the try block raises: `except Exception` builds its
\* error response.
FlushRejected ==
    /\ pc = "flush"
    /\ ~InExcept(line, fs)
    /\ response' = except_Exception(BrokenPipe)
    /\ pc' = "except"
    /\ UNCHANGED <<fs, document, workbook, stdin, stdinClosed, line, nread, consumed, io, out, flushed>>

\* print(json.dumps(error_response)) of `except Exception`, after a failed
\* write of the try block.
PrintError ==
    /\ pc = "except"
    /\ out' = Append(out, response)
    /\ pc' = "flush_error"
    /\ UNCHANGED <<fs, document, workbook, stdin, stdinClosed, line, nread, consumed, response, io, flushed>>

\* sys.stdout.flush() of `except Exception`, and back to the top of the loop.
FlushError ==
    /\ pc = "flush_error"
    /\ flushed' = Len(out)
    /\ pc' = "read"
    /\ UNCHANGED <<fs, document, workbook, stdin, stdinClosed, line, nread, consumed, response, io, out>>

\* The print or the flush inside an except clause raises: no try encloses the
\* clause, the exception leaves the while loop and main() ends with it.
Crash ==
    /\ \/ pc \in {"except", "flush_error"}
       \/ pc \in {"print", "flush"} /\ InExcept(line, fs)
    /\ pc' = "crashed"
    /\ UNCHANGED <<fs, document, workbook, stdin, stdinClosed, line, nread, consumed, response, io, out, flushed>>

NextOut ==
    \/ FeedLive \/ CloseStdin \/ ReadLine \/ ReadEOF \/ HandleLine \/ PrintResponse \/ Flush
    \/ PrintRejected \/ FlushRejected \/ PrintError \/ FlushError \/ Crash

\* The loop with an output stream that may reject any write.
SpecOut == Init /\ [][NextOut]_vars

\* One request: a line of CallLines is waiting on standard input, in any
\* filesystem, and standard input is closed behind it.
InitCall ==
    /\ fs \in FSStates
    /\ document = SampleDocument
    /\ workbook = SampleWorkbook
    /\ stdin \in {<<l>> : l \in CallLines}
    /\ stdinClosed = TRUE
    /\ pc = "read"
    /\ line = NoLine
    /\ nread = 0
    /\ consumed = <<>>
    /\ response = NoResponse
    /\ io = <<>>
    /\ out = <<>>
    /\ flushed = 0

NextCall == ReadLine \/ ReadEOF \/ HandleLine \/ PrintResponse \/ Flush

SpecCall == InitCall /\ [][NextCall]_vars

\* The filesystem of the extraction specification: every file is there and
\* well-formed.
ReadFS == [p \in Paths |-> IF p = "docs" THEN "dir" ELSE "file"]

\* Calls that read the Word document, with every value of its flag.
WordReadLines ==
    {JsonLine(Req("1", "tools/call",
                  Params("7", name, Args("docs/a.docx", a, Absent, Absent, Absent)))) :
        name \in {"read_word_document", "read_document"}, a \in FlagArgs}

\* Calls that read a workbook on either codec path, with the flags on, off or
\* omitted.
ExcelReadLines ==
    {JsonLine(Req("1", "tools/call", Params("7", "read_excel_file", Args(fp, a, b, c, Absent)))) :
        fp \in {"./c.xls", "d.xlsm"}, a \in OffArgs, b \in FlagArgs, c \in OffArgs}
    \cup
    {JsonLine(Req("1", "tools/call", Params("7", "read_document", Args(fp, a, Absent, Absent, Absent)))) :
        fp \in {"./c.xls", "d.xlsm"}, a \in OffArgs}

\* One extraction: a call that reads a well-formed document of any content is
\* waiting on standard input.
InitRead ==
    /\ fs = ReadFS
    /\ \/ /\ stdin \in {<<l>> : l \in WordReadLines}
          /\ document \in Documents
          /\ workbook = SampleWorkbook
       \/ /\ stdin \in {<<l>> : l \in ExcelReadLines}
          /\ document = SampleDocument
          /\ workbook \in Workbooks
    /\ stdinClosed = TRUE
    /\ pc = "read"
    /\ line = NoLine
    /\ nread = 0
    /\ consumed = <<>>
    /\ response = NoResponse
    /\ io = <<>>
    /\ out = <<>>
    /\ flushed = 0

SpecRead == InitRead /\ [][NextCall]_vars

------------------------------------------------------------------------------
(* word_reader_mcp_server.py: the standalone Word server *)

WordReaderMCPServer_server_name == "word-reader-mcp"
WordReaderMCPServer_version == "1.0.0"

WordReaderMCPServer_ToolNames == {"read_word_document", "list_word_documents"}

WordReaderMCPServer_ToolCatalog ==
    << [name |-> "read_word_document",
        properties |-> << <<"file_path", Absent>>, <<"include_formatting", JFalse>> >>,
        required |-> <<"file_path">>],
       [name |-> "list_word_documents",
        properties |-> << <<"directory_path", ".">> >>,
        required |-> <<>>] >>

\* The extraction of _read_word_document, inside its try block.
WordReaderMCPServer_extract(path, include_formatting, f, ops) ==
    LET emitted == SelectSeq(document.paragraphs, LAMBDA para : strip(para_text(para)) # <<>>)
        paragraphs == [i \in 1..Len(emitted) |-> paragraph_data(emitted[i], include_formatting)]
        tables == [i \in 1..Len(document.tables) |-> table_data(document.tables[i])]
    IN  IF CodecParses(f, path)
        THEN Return([success |-> TRUE,
                     file_path |-> path,
                     paragraphs |-> paragraphs,
                     tables |-> tables,
                     total_paragraphs |-> Len(paragraphs),
                     total_tables |-> Len(tables)],
                    ops \o << <<"Document", path>> >>)
        ELSE Return([success |-> FALSE, error |-> <<"codec: ", path>>, file_path |-> path],
                    ops \o << <<"Document", path>> >>)

\* Mutant of WordReaderMCPServer_read_word_document: a missing file and a wrong
\* extension are reported in the payload, as the bridge server does.
WordReaderMCPServer_read_word_document_Enveloped(arguments, f) ==
    IF arguments.type # "dict" THEN NoGet(arguments.type)
    ELSE LET file_path == Get(arguments.file_path, None)
             include_formatting == Get(arguments.include_formatting, JFalse)
             ex == <<"exists", StrPath(file_path)>>
         IN  IF ~Truthy(file_path)
             THEN Raise("ValueError", <<"file_path is required">>, <<>>)
             ELSE IF ~Exists(f, file_path)
             THEN Return([success |-> FALSE, error |-> <<"File not found: ", file_path>>,
                          file_path |-> file_path], <<ex>>)
             ELSE IF Lower(Suffix(file_path)) # ".docx"
             THEN Return([success |-> FALSE,
                          error |-> <<"File must be a .docx file, got: ", Suffix(file_path)>>,
                          file_path |-> file_path], <<ex>>)
             ELSE WordReaderMCPServer_extract(StrPath(file_path), include_formatting, f, <<ex>>)

WordReaderMCPServer_read_word_document(arguments, f) ==
    IF arguments.type # "dict" THEN NoGet(arguments.type)
    ELSE LET file_path == Get(arguments.file_path, None)
             include_formatting == Get(arguments.include_formatting, JFalse)
             ex == <<"exists", StrPath(file_path)>>
         IN  IF ~Truthy(file_path)
             THEN Raise("ValueError", <<"file_path is required">>, <<>>)
             ELSE IF ~Exists(f, file_path)
             THEN Raise("FileNotFoundError", <<"File not found: ", file_path>>, <<ex>>)
             ELSE IF Lower(Suffix(file_path)) # ".docx"
             THEN Raise("ValueError", <<"File must be a .docx file, got: ", Suffix(file_path)>>,
                        <<ex>>)
             ELSE WordReaderMCPServer_extract(StrPath(file_path), include_formatting, f, <<ex>>)

\* path.glob("*.docx"): the entries of the directory itself whose name ends in
\* .docx.
Glob(f, dir) ==
    {p \in Paths : Parent(p) = StrPath(dir) /\ f[p] # "absent" /\ Suffix(p) = ".docx"}

WordReaderMCPServer_list_word_documents(arguments, f) ==
    IF arguments.type # "dict" THEN NoGet(arguments.type)
    ELSE LET directory_path == Get(arguments.directory_path, ".")
             ex == <<"exists", StrPath(directory_path)>>
             isd == <<"is_dir", StrPath(directory_path)>>
         IN  IF ~Exists(f, directory_path)
             THEN Raise("FileNotFoundError", <<"Directory not found: ", directory_path>>, <<ex>>)
             ELSE IF ~IsDir(f, directory_path)
             THEN Raise("ValueError", <<"Path is not a directory: ", directory_path>>, <<ex, isd>>)
             ELSE Return([success |-> TRUE,
                          directory |-> StrPath(directory_path),
                          docx_files |-> {[path |-> p] : p \in Glob(f, directory_path)},
                          count |-> Cardinality(Glob(f, directory_path))],
                         <<ex, isd, <<"glob", StrPath(directory_path)>> >>)

WordReaderMCPServer_handle_initialize(params) ==
    IF params.type # "dict" THEN NoGet(params.type)
    ELSE Return([jsonrpc |-> "2.0",
                 id |-> Get(params.id, None),
                 result |-> [protocolVersion |-> "2024-11-05",
                             capabilities |-> [tools |-> <<>>],
                             serverInfo |-> [name |-> WordReaderMCPServer_server_name,
                                             version |-> WordReaderMCPServer_version]]],
                <<>>)

WordReaderMCPServer_handle_tools_list ==
    Return([jsonrpc |-> "2.0", result |-> [tools |-> WordReaderMCPServer_ToolCatalog]], <<>>)

\* The tool handler _handle_tools_call runs for a registered name.
WordReaderMCPServer_Dispatch(tool_name, arguments, f) ==
    CASE tool_name = "read_word_document" -> WordReaderMCPServer_read_word_document(arguments, f)
      [] tool_name = "list_word_documents" -> WordReaderMCPServer_list_word_documents(arguments, f)

\* The end of _handle_tools_call is, word for word, the bridge server's.
WordReaderMCPServer_handle_tools_call(params, f) ==
    IF params.type # "dict" THEN NoGet(params.type)
    ELSE LET tool_name == Get(params.name, None)
             arguments == IF params.arguments.type = "absent"
                          THEN NoArguments("dict") ELSE params.arguments
             id == Get(params.id, None)
         IN  IF tool_name \notin WordReaderMCPServer_ToolNames
             THEN Return(ToolNotFound(id, tool_name), <<>>)
             ELSE ToolResponse(id, After(<< <<"call", tool_name>> >>,
                                         WordReaderMCPServer_Dispatch(tool_name, arguments, f)))

WordReaderMCPServer_handle_request(request, f) ==
    IF request.type # "dict" THEN NoGet(request.type)
    ELSE LET method == Get(request.method, None)
             params == IF request.params.type = "absent" THEN NoParams("dict") ELSE request.params
         IN  CASE method = "initialize" -> WordReaderMCPServer_handle_initialize(params)
               [] method = "tools/list" -> WordReaderMCPServer_handle_tools_list
               [] method = "tools/call" -> WordReaderMCPServer_handle_tools_call(params, f)
               [] OTHER -> Return(ErrorResponse(Get(request.id, None), METHOD_NOT_FOUND,
                                                <<"Method not found: ", method>>),
                                  <<>>)

\* The body of the try block of the standalone server's main(), with its except
\* clauses, which are those of the bridge server.
WordReaderMCPServer_Process(l, f) ==
    LET request == JsonLoads(Strip(l.raw), l.value)
    IN  IF request.raised
        THEN [response |-> except_JSONDecodeError(request.exc.msg), io |-> <<>>]
        ELSE Respond(WordReaderMCPServer_handle_request(request.val, f))

\* json.loads, handle_request and the except clauses of the standalone server,
\* up to their print.
WordHandleLine ==
    /\ pc = "handle"
    /\ response' = WordReaderMCPServer_Process(line, fs).response
    /\ io' = WordReaderMCPServer_Process(line, fs).io
    /\ pc' = "print"
    /\ UNCHANGED <<fs, document, workbook, stdin, stdinClosed, line, nread, consumed, out, flushed>>

NextWord == ReadLine \/ ReadEOF \/ WordHandleLine \/ PrintResponse \/ Flush

\* One request to the standalone Word server: the lines and the filesystems of
\* SpecCall.
SpecWord == InitCall /\ [][NextWord]_vars

------------------------------------------------------------------------------
(* Properties *)

\* A response carrying an error member with this code, and no result.
IsError(r, code) ==
    /\ "error" \in DOMAIN r
    /\ "result" \notin DOMAIN r
    /\ r.error.code = code

\* A response carrying a result member, and no error.
IsResult(r) == "result" \in DOMAIN r /\ "error" \notin DOMAIN r

\* The server has finished with the n-th line it read.
LineDone(n) == n < nread \/ (n = nread /\ pc \in {"read", "done"})

\* The n-th line was answered by exactly one response, which is the n-th
\* written, before the server went on; and the server stops only at
\* end-of-stream.
AnsweredOnce(n) ==
    /\ Len(out) <= nread
    /\ LineDone(n) => (n <= Len(out) /\ n <= flushed)
    /\ pc = "done" => (stdin = <<>> /\ stdinClosed)

\* The line is no JSON text (RFC 8259).
NotJson(l) == l.raw # "json"

\* The line is one json.loads rejects: no JSON text, and not the literal NaN
\* either.
Rejected(l) == l.raw \notin {"json", "NaN"}

\* C1 as stated: every line that is not valid JSON is answered by exactly one
\* response with code -32700 and id null, and the server goes on reading.
C1_NotJsonGetsParseError ==
    \A n \in 1..nread :
        NotJson(consumed[n]) =>
            /\ AnsweredOnce(n)
            /\ n <= Len(out) => (IsError(out[n], -32700) /\ out[n].id = None)

\* C1, amended: every line that json.loads rejects (empty, blank or malformed
\* text; not the literal NaN, which it accepts) is answered by exactly one
\* response with code -32700 and id null, and the server goes on reading.
C1_RejectedGetsParseError ==
    \A n \in 1..nread :
        Rejected(consumed[n]) =>
            /\ AnsweredOnce(n)
            /\ n <= Len(out) => (IsError(out[n], -32700) /\ out[n].id = None)

\* A blank line was answered with -32700 and the next line has been read.
C1_Witness ==
    /\ nread = 2
    /\ consumed[1] = BlankLine
    /\ IsError(out[1], -32700)
    /\ pc = "handle"

\* The five tools the server registers.
RegisteredTools == {"read_document", "read_excel_file", "read_word_document",
                    "list_supported_files", "get_supported_formats"}

IsRequest(l) == l.raw = "json" /\ l.value.type = "dict"

UnknownMethod(l) ==
    /\ IsRequest(l)
    /\ l.value.method \notin {"initialize", "tools/list", "tools/call"}

ToolCall(l) ==
    /\ IsRequest(l)
    /\ l.value.method = "tools/call"
    /\ l.value.params.type \in {"absent", "dict"}

UnknownTool(l) == ToolCall(l) /\ l.value.params.name \notin RegisteredTools

\* C2: a request with an unknown or missing method, and a tools/call with an
\* unknown or missing tool name, is answered by exactly one response with code
\* -32601, whatever its params or arguments, and no tool handler runs.
C2_UnknownMethodOrTool ==
    \A n \in 1..nread :
        (UnknownMethod(consumed[n]) \/ UnknownTool(consumed[n])) =>
            /\ AnsweredOnce(n)
            /\ n <= Len(out) => (IsError(out[n], -32601) /\ io = <<>>)

\* An unknown tool called with a file path was answered with -32601.
C2_Witness ==
    /\ pc = "done"
    /\ nread = 1
    /\ UnknownTool(consumed[1])
    /\ consumed[1].value.params.arguments.file_path = "b.XLSX"
    /\ fs["b.XLSX"] = "file"
    /\ IsError(out[1], -32601)

\* json.loads returns a value for the line, and handling it raises out of
\* handle_request: the value is no object, or initialize / tools/call reads a
\* params that is no mapping.
RaisesUncaught(l) ==
    /\ l.raw \in {"json", "NaN"}
    /\ \/ l.value.type # "dict"
       \/ /\ l.value.method \in {"initialize", "tools/call"}
          /\ l.value.params.type \notin {"absent", "dict"}

\* C3: a line that parses but whose handling raises an uncaught failure is
\* answered by exactly one response with code -32603, and the server goes on
\* reading.
C3_UncaughtGetsInternalError ==
    \A n \in 1..nread :
        RaisesUncaught(consumed[n]) =>
            /\ AnsweredOnce(n)
            /\ n <= Len(out) => IsError(out[n], -32603)

\* A tools/call whose params is a list was answered with -32603 and the next
\* line has been read.
C3_Witness ==
    /\ nread = 2
    /\ consumed[1] = JsonLine(Req("1", "tools/call", NoParams("list")))
    /\ IsError(out[1], -32603)
    /\ pc = "handle"

\* C4: one response per line, the n-th response answers the n-th line, and it
\* is written and flushed before the next line is read; at most one line is in
\* progress.
C4_OneResponsePerLineInOrder ==
    /\ Len(out) <= nread
    /\ nread <= Len(out) + 1
    /\ flushed <= Len(out)
    /\ pc \in {"read", "done"} => (Len(out) = nread /\ flushed = nread)
    /\ pc \in {"handle", "print"} => (Len(out) = nread - 1 /\ flushed = nread - 1)
    /\ pc = "flush" => Len(out) = nread
    /\ \A n \in 1..Len(out) : out[n] = Process(consumed[n], fs).response

\* The second line is in progress while the third is already waiting, and the
\* first response has been flushed.
C4_Witness ==
    /\ nread = 2
    /\ pc = "print"
    /\ Len(stdin) = 1
    /\ Len(out) = 1
    /\ flushed = 1

\* A response that reports a failure: a JSON-RPC error, or a tool payload with
\* success = false.
IsFailure(r) ==
    \/ "error" \in DOMAIN r
    \/ /\ "result" \in DOMAIN r
       /\ "content" \in DOMAIN r.result
       /\ ~r.result.content[1].text.json.success

\* C5: whichever way the lines fail, the server leaves the loop only when a
\* read finds standard input at end-of-stream.
C5_LeavesOnlyAtEOF ==
    /\ pc \in {"read", "handle", "print", "flush", "done"}
    /\ pc = "done" => (stdinClosed /\ stdin = <<>> /\ Len(out) = nread)

\* Two lines have failed, among them a blank one, and the server is back at
\* its read.
C5_Witness ==
    /\ pc = "read"
    /\ nread = 2
    /\ ~stdinClosed
    /\ consumed[2] = BlankLine
    /\ IsFailure(out[1])
    /\ IsFailure(out[2])

\* C6: once standard input is closed the server terminates, and it has then
\* written one response per line read and none for the end-of-stream read.
C6_TerminatesAtEOF ==
    /\ stdinClosed ~> (pc = "done")
    /\ [](pc = "done" => (Len(out) = nread /\ flushed = nread))

\* The server has terminated after answering two lines.
C6_Witness ==
    /\ pc = "done"
    /\ nread = 2
    /\ Len(out) = 2

\* The three tools that read a file.
ReadTools == {"read_document", "read_excel_file", "read_word_document"}

\* The payload a tools/call result carries.
Payload(r) == r.result.content[1].text.json

\* A tools/call of a reading tool whose arguments carry no usable file_path:
\* the key is absent (or there are no arguments), or its value is null or "".
NoFilePath(l) ==
    /\ ToolCall(l)
    /\ l.value.params.name \in ReadTools
    /\ l.value.params.arguments.file_path \in {Absent, None, ""}

\* C7: a reading tool called without file_path is answered with a JSON-RPC
\* error -32603, never a result, and neither the filesystem nor a codec is
\* touched.
C7_MissingFilePath ==
    \A n \in 1..nread :
        NoFilePath(consumed[n]) =>
            /\ AnsweredOnce(n)
            /\ n <= Len(out) =>
                  /\ IsError(out[n], -32603)
                  /\ \A i \in 1..Len(io) : io[i][1] = "call"

\* read_word_document called with file_path = "" was answered with -32603.
C7_Witness ==
    /\ pc = "done"
    /\ nread = 1
    /\ NoFilePath(consumed[1])
    /\ consumed[1].value.params.name = "read_word_document"
    /\ consumed[1].value.params.arguments.file_path = ""
    /\ IsError(out[1], -32603)

\* The lower-cased extension of each path of the universe.
ExtOf(p) ==
    CASE p = "docs/a.docx" -> ".docx"
      [] p = "b.XLSX" -> ".xlsx"
      [] p = "./c.xls" -> ".xls"
      [] p = "d.xlsm" -> ".xlsm"
      [] p = "e.txt" -> ".txt"
      [] OTHER -> ""

\* The extensions each reading tool supports.
Supports(tool, ext) ==
    CASE tool = "read_document" -> ext \in {".docx", ".xlsx", ".xls", ".xlsm"}
      [] tool = "read_excel_file" -> ext \in {".xlsx", ".xls", ".xlsm"}
      [] tool = "read_word_document" -> ext = ".docx"

\* A tools/call of a reading tool that names a path.
ReadsPath(l) ==
    /\ ToolCall(l)
    /\ l.value.params.name \in ReadTools
    /\ l.value.params.arguments.file_path \in PathArgs

\* The path the call names, as the filesystem knows it.
OnDisk(l) == IF l.value.params.arguments.file_path = "./c.xls"
             THEN "c.xls" ELSE l.value.params.arguments.file_path

\* The call names a missing file, or a file (no directory) of an extension the
\* tool does not support or that its codec cannot parse.
DomainFailure(l, f) ==
    /\ ReadsPath(l)
    /\ f[OnDisk(l)] # "dir"
    /\ \/ f[OnDisk(l)] = "absent"
       \/ ~Supports(l.value.params.name, ExtOf(l.value.params.arguments.file_path))
       \/ f[OnDisk(l)] = "corrupt"

\* C8: a reading tool called on a missing file, on an unsupported extension or
\* on a file the codec fails on is answered with a JSON-RPC result (never an
\* error) whose payload has success = false, an error message and the file
\* path; for read_document on an unrecognized extension the message lists the
\* supported extensions.
C8_DomainFailureIsResult ==
    \A n \in 1..Len(out) :
        DomainFailure(consumed[n], fs) =>
            /\ IsResult(out[n])
            /\ ~Payload(out[n]).success
            /\ "error" \in DOMAIN Payload(out[n])
            /\ Payload(out[n]).file_path \in
                   {consumed[n].value.params.arguments.file_path, OnDisk(consumed[n])}
            /\ (/\ consumed[n].value.params.name = "read_document"
                /\ fs[OnDisk(consumed[n])] # "absent"
                /\ ~Supports("read_document", ExtOf(consumed[n].value.params.arguments.file_path)))
               => {".docx", ".xlsx", ".xls", ".xlsm"} \subseteq SeqRange(Payload(out[n]).error)

\* A call of list_supported_files that names a path which does not exist or
\* is no directory.
BadDirectory(l, f) ==
    /\ ToolCall(l)
    /\ l.value.params.name = "list_supported_files"
    /\ l.value.params.arguments.directory_path \in PathArgs
    /\ f[IF l.value.params.arguments.directory_path = "./c.xls"
         THEN "c.xls" ELSE l.value.params.arguments.directory_path] # "dir"

\* C9: list_supported_files on a path that does not exist or is no directory
\* is answered with a JSON-RPC result whose payload has success = false and an
\* error message, not with a JSON-RPC error.
C9_BadDirectoryIsResult ==
    \A n \in 1..Len(out) :
        BadDirectory(consumed[n], fs) =>
            /\ IsResult(out[n])
            /\ ~Payload(out[n]).success
            /\ "error" \in DOMAIN Payload(out[n])

\* A read_document call on an existing file of a supported extension.
ReadDocumentOnSupported(l, f) ==
    /\ ReadsPath(l)
    /\ l.value.params.name = "read_document"
    /\ f[OnDisk(l)] \in {"file", "corrupt"}
    /\ Supports("read_document", ExtOf(l.value.params.arguments.file_path))

\* The handler C10 says read_document dispatches the call to.
TargetOf(l) ==
    IF ExtOf(l.value.params.arguments.file_path) = ".docx"
    THEN "read_word_document" ELSE "read_excel_file"

\* The same call made of another tool.
Renamed(l, tool) == [l EXCEPT !.value.params.name = tool]

\* C10: on an existing file read_document dispatches on the lower-cased
\* extension, .docx to the Word handler and .xlsx, .xls, .xlsm to the Excel
\* handler, and its response is the response of that tool called with the same
\* arguments on the same file.
C10_ReadDocumentDispatch ==
    \A n \in 1..Len(out) :
        (n = nread /\ ReadDocumentOnSupported(consumed[n], fs)) =>
            /\ out[n] = Process(Renamed(consumed[n], TargetOf(consumed[n])), fs).response
            /\ <<"call", TargetOf(consumed[n])>> \in SeqRange(io)

\* read_document has read the workbook b.XLSX, with formatting switched off.
C10_Witness ==
    /\ pc = "done"
    /\ nread = 1
    /\ ReadDocumentOnSupported(consumed[1], fs)
    /\ consumed[1].value.params.arguments.file_path = "b.XLSX"
    /\ consumed[1].value.params.arguments.include_formatting = JFalse
    /\ fs["b.XLSX"] = "file"
    /\ IsResult(out[1])
    /\ Payload(out[1]).success
    /\ DOMAIN Payload(out[1]).worksheets[1].formatting = {}
    /\ DOMAIN Payload(out[1]).worksheets[1].formulas # {}

\* The catalog entry of a tool, and the default it declares for a property.
CatalogEntry(tool) == ToolCatalog[CHOOSE i \in 1..Len(ToolCatalog) : ToolCatalog[i].name = tool]

DeclaredDefault(tool, flag) ==
    LET props == CatalogEntry(tool).properties
    IN  props[CHOOSE i \in 1..Len(props) : props[i][1] = flag][2]

\* The optional boolean flags the catalog declares for a tool.
OptionalFlags(tool) ==
    LET props == CatalogEntry(tool).properties
    IN  {props[i][1] : i \in {j \in 1..Len(props) : props[j][2] \in {JTrue, JFalse}}}

\* The same call with one more argument.
WithArgument(l, key, v) == [l EXCEPT !.value.params.arguments[key] = v]

\* C11: a reading tool called on a readable document with an optional flag
\* omitted answers as if the flag had been given the default the tool catalog
\* declares for that tool: true for the three flags of read_document and
\* read_excel_file, false for include_formatting of read_word_document.
C11_OmittedFlagTakesCatalogDefault ==
    \A n \in 1..Len(out) :
        (n = nread /\ ReadsPath(consumed[n])) =>
            \A flag \in OptionalFlags(consumed[n].value.params.name) :
                consumed[n].value.params.arguments[flag] = Absent =>
                    out[n] = Process(WithArgument(consumed[n], flag,
                                                  DeclaredDefault(consumed[n].value.params.name,
                                                                  flag)),
                                     fs).response

\* A tools/call of get_supported_formats, whatever its arguments.
AsksFormats(l) == ToolCall(l) /\ l.value.params.name = "get_supported_formats"

\* C12: every answer to get_supported_formats, whatever the filesystem, the
\* arguments and the requests handled before it, is a result that lists
\* exactly the four formats .docx, .xlsx, .xls, .xlsm with their labels and has
\* total_formats = 4.
C12_AlwaysFourFormats ==
    \A n \in 1..Len(out) :
        AsksFormats(consumed[n]) =>
            /\ IsResult(out[n])
            /\ Payload(out[n]).success
            /\ Len(Payload(out[n]).supported_formats) = 4
            /\ SeqRange(Payload(out[n]).supported_formats) =
                   {<<".docx", "Microsoft Word Document">>,
                    <<".xlsx", "Microsoft Excel Workbook">>,
                    <<".xls", "Microsoft Excel Workbook (Legacy)">>,
                    <<".xlsm", "Microsoft Excel Macro-Enabled Workbook">>}
            /\ Payload(out[n]).total_formats = 4

\* get_supported_formats was answered with its four formats after two other
\* requests, one of them failed, with no supported file on disk.
C12_Witness ==
    /\ nread = 3
    /\ Len(out) = 3
    /\ AsksFormats(consumed[3])
    /\ IsFailure(out[1])
    /\ \A p \in Paths : Lower(Suffix(p)) \in SeqRange(supported_formats_keys) => fs[p] # "file"
    /\ Payload(out[3]).total_formats = 4

\* A call of list_supported_files on an existing directory: the working
\* directory when directory_path is omitted.
ListsDirectory(l, f) ==
    /\ ToolCall(l)
    /\ l.value.params.name = "list_supported_files"
    /\ l.value.params.arguments.type \in {"absent", "dict"}
    /\ \/ l.value.params.arguments.directory_path = Absent
       \/ /\ l.value.params.arguments.directory_path = "docs"
          /\ f["docs"] = "dir"

\* The regular files of the tree the call lists, and the extension each has
\* after lower-casing.
FilesBelow(l, f) ==
    {p \in {"docs/a.docx", "b.XLSX", "c.xls", "d.xlsm", "e.txt", "docs"} :
        /\ f[p] \in {"file", "corrupt"}
        /\ l.value.params.arguments.directory_path = "docs" => p = "docs/a.docx"}

DiskExt(p) == ExtOf(IF p = "c.xls" THEN "./c.xls" ELSE p)

\* The label the format catalog gives an extension.
CatalogLabel(ext) ==
    CASE ext = ".docx" -> "Microsoft Word Document"
      [] ext = ".xlsx" -> "Microsoft Excel Workbook"
      [] ext = ".xls" -> "Microsoft Excel Workbook (Legacy)"
      [] ext = ".xlsm" -> "Microsoft Excel Macro-Enabled Workbook"
      [] OTHER -> "<no label>"

\* C13: list_supported_files on a directory (the working directory when
\* directory_path is omitted) returns one entry for every regular file at any
\* depth whose lower-cased extension is .docx, .xlsx, .xls or .xlsm, and no
\* other entry; count is the number of entries; each entry's format is the
\* file's lower-cased extension, with the catalog label of that extension.
C13_ListsExactlySupportedFiles ==
    \A n \in 1..Len(out) :
        ListsDirectory(consumed[n], fs) =>
            LET entries == Payload(out[n]).supported_files
                expected == {p \in FilesBelow(consumed[n], fs) :
                                DiskExt(p) \in {".docx", ".xlsx", ".xls", ".xlsm"}}
            IN  /\ IsResult(out[n])
                /\ Payload(out[n]).success
                /\ {e.path : e \in entries} = expected
                /\ Cardinality(entries) = Cardinality(expected)
                /\ Payload(out[n]).count = Cardinality(entries)
                /\ \A e \in entries :
                       /\ e.format = DiskExt(e.path)
                       /\ e.format_description = CatalogLabel(DiskExt(e.path))

\* The working directory was listed with one file of each supported extension
\* in the tree, one of them in a subdirectory and one with an upper-case
\* suffix, next to an unsupported file.
C13_Witness ==
    /\ pc = "done"
    /\ nread = 1
    /\ ListsDirectory(consumed[1], fs)
    /\ consumed[1].value.params.arguments.directory_path = Absent
    /\ \A p \in {"docs/a.docx", "b.XLSX", "c.xls", "d.xlsm", "e.txt"} : fs[p] \in {"file", "corrupt"}
    /\ Payload(out[1]).count = 4

\* A text without its leading and trailing blanks.
Trimmed(s) ==
    LET inked == {i \in 1..Len(s) : s[i] # " "}
    IN  IF inked = {} THEN <<>>
        ELSE SubSeq(s, CHOOSE i \in inked : \A j \in inked : i <= j,
                       CHOOSE i \in inked : \A j \in inked : j <= i)

\* The trimmed texts of the paragraphs that are not blank, in document order.
RECURSIVE NonBlankTexts(_)
NonBlankTexts(ps) ==
    IF ps = <<>> THEN <<>>
    ELSE (IF Trimmed(para_text(Head(ps))) = <<>> THEN <<>> ELSE <<Trimmed(para_text(Head(ps)))>>)
         \o NonBlankTexts(Tail(ps))

\* The paragraphs that are not blank, in document order.
RECURSIVE NonBlank(_)
NonBlank(ps) ==
    IF ps = <<>> THEN <<>>
    ELSE (IF Trimmed(para_text(Head(ps))) = <<>> THEN <<>> ELSE <<Head(ps)>>) \o NonBlank(Tail(ps))

\* A call of the given tool on the Word document.
ReadsWord(l, tool) ==
    /\ ReadsPath(l)
    /\ l.value.params.name = tool
    /\ l.value.params.arguments.file_path = "docs/a.docx"

\* C14: read_word_document on a .docx returns the paragraphs whose trimmed
\* text is not empty, in document order and with their trimmed text;
\* total_paragraphs is their number, total_tables is the number of tables of
\* the document, and no emitted paragraph has an empty text.
C14_NonBlankParagraphsInOrder ==
    \A n \in 1..Len(out) :
        (ReadsWord(consumed[n], "read_word_document") /\ fs["docs/a.docx"] = "file") =>
            LET p == Payload(out[n])
            IN  /\ IsResult(out[n])
                /\ p.success
                /\ [i \in 1..Len(p.paragraphs) |-> p.paragraphs[i].text]
                       = NonBlankTexts(document.paragraphs)
                /\ p.total_paragraphs = Len(NonBlankTexts(document.paragraphs))
                /\ p.total_tables = Len(document.tables)
                /\ Len(p.tables) = Len(document.tables)
                /\ \A i \in 1..Len(p.paragraphs) : p.paragraphs[i].text # <<>>

\* A document of a blank paragraph, a paragraph with text between blanks and
\* two tables was read: one paragraph is emitted.
C14_Witness ==
    /\ pc = "done"
    /\ ReadsWord(consumed[1], "read_word_document")
    /\ Len(document.paragraphs) = 2
    /\ para_text(document.paragraphs[1]) = <<" ">>
    /\ para_text(document.paragraphs[2]) = <<" ", " ", "b">>
    /\ Len(document.tables) = 2
    /\ Payload(out[1]).total_paragraphs = 1
    /\ Payload(out[1]).paragraphs[1].text = <<"b">>
    /\ Payload(out[1]).total_tables = 2

\* The trimmed texts of the runs whose trimmed text is not empty, in order.
RECURSIVE InkedRunTexts(_)
InkedRunTexts(runs) ==
    IF runs = <<>> THEN <<>>
    ELSE (IF Trimmed(Head(runs).text) = <<>> THEN <<>> ELSE <<Trimmed(Head(runs).text)>>)
         \o InkedRunTexts(Tail(runs))

\* The formatting flag a read_word_document call runs with.
WordFlagOn(l) == l.value.params.arguments.include_formatting = JTrue

\* What the formatting flag must leave alone: the paragraph texts, the tables
\* and the two totals of a payload.
Unformatted(p) ==
    [texts |-> [i \in 1..Len(p.paragraphs) |-> p.paragraphs[i].text],
     tables |-> p.tables,
     total_paragraphs |-> p.total_paragraphs,
     total_tables |-> p.total_tables]

ReadsExcel(l, f) ==
    /\ ReadsPath(l)
    /\ l.value.params.name = "read_excel_file"
    /\ l.value.params.arguments.file_path \in {"b.XLSX", "./c.xls", "d.xlsm"}
    /\ f[OnDisk(l)] = "file"

\* The call reads a legacy workbook (.xls), and otherwise a .xlsx / .xlsm one.
OnXls(l) == l.value.params.arguments.file_path = "./c.xls"

\* The flag is true for the call: given as true, or omitted.
FlagOn(l, flag) == l.value.params.arguments[flag] \in {Absent, JTrue}

\* The reference of the cell in row r and column c.
RefOf(r, c) == <<"A", "B", "C">>[c] \o ToString(r)

\* The positions of the rectangular used range of a worksheet.
UsedRange(ws) == (1..ws.max_row) \X (1..ws.max_column)

\* The value of the cell is empty or whitespace-only.
BlankValue(c) == c.kind = "empty" \/ (c.kind = "text" /\ Trimmed(c.text) = <<>>)

\* C16: on both Excel codec paths, a cell of the used range is omitted from
\* the worksheet's cell list if and only if its value is empty or
\* whitespace-only, and every other cell of the range is in the list exactly
\* once.
C16_CellListOmitsExactlyBlanks ==
    \A n \in 1..Len(out) :
        (ReadsExcel(consumed[n], fs) /\ Payload(out[n]).success) =>
            \A i \in 1..Len(workbook.sheets) :
                LET ws == workbook.sheets[i]
                    cells == Payload(out[n]).worksheets[i].cells
                IN  /\ {cells[k].reference : k \in 1..Len(cells)} =
                           {RefOf(rc[1], rc[2]) : rc \in {x \in UsedRange(ws) : ~BlankValue(ws.cells[x])}}
                    /\ \A j, k \in 1..Len(cells) :
                           cells[j].reference = cells[k].reference => j = k

\* C17: with include_formatting true, on either codec path, the formatting
\* map of every worksheet has an entry for every cell of the used range
\* [1..max_row] x [1..max_col], the blank cells included.
C17_FormattingCoversUsedRange ==
    \A n \in 1..Len(out) :
        (/\ ReadsExcel(consumed[n], fs)
         /\ FlagOn(consumed[n], "include_formatting")
         /\ Payload(out[n]).success) =>
            \A i \in 1..Len(workbook.sheets) :
                {RefOf(rc[1], rc[2]) : rc \in UsedRange(workbook.sheets[i])}
                    \subseteq DOMAIN Payload(out[n]).worksheets[i].formatting

\* The positions of the used range that hold a formula.
FormulaCells(ws) == {rc \in UsedRange(ws) : ws.cells[rc].kind = "formula"}

\* C18: read_excel_file on a .xlsx / .xlsm file with include_formulas true
\* succeeds, the keys of each worksheet's formulas map are exactly the
\* references of the formula cells of the used range, and every entry has both
\* formula and calculated_value populated.
C18_FormulasKeyedByFormulaCells ==
    \A n \in 1..Len(out) :
        (/\ ReadsExcel(consumed[n], fs)
         /\ ~OnXls(consumed[n])
         /\ FlagOn(consumed[n], "include_formulas")) =>
            /\ Payload(out[n]).success
            /\ \A i \in 1..Len(workbook.sheets) :
                   LET formulas == Payload(out[n]).worksheets[i].formulas
                   IN  /\ DOMAIN formulas =
                              {RefOf(rc[1], rc[2]) : rc \in FormulaCells(workbook.sheets[i])}
                       /\ \A r \in DOMAIN formulas :
                              /\ DOMAIN formulas[r] = {"formula", "calculated_value"}
                              /\ formulas[r].formula.t # "NoneType"
                              /\ formulas[r].calculated_value.t # "NoneType"

\* A macro-enabled workbook was read whose only formula is in B2, among an
\* empty, a whitespace-only and a text cell.
C18_Witness ==
    /\ pc = "done"
    /\ ReadsExcel(consumed[1], fs)
    /\ consumed[1].value.params.arguments.file_path = "d.xlsm"
    /\ consumed[1].value.params.arguments.include_formulas = JTrue
    /\ workbook.sheets[1].max_row = 2
    /\ workbook.sheets[1].max_column = 2
    /\ workbook.sheets[1].cells[<<1, 1>>].kind = "empty"
    /\ BlankValue(workbook.sheets[1].cells[<<1, 2>>])
    /\ FormulaCells(workbook.sheets[1]) = {<<2, 2>>}
    /\ DOMAIN Payload(out[1]).worksheets[1].formulas = {"B2"}

\* C19: in every FormulaRecord emitted on the .xlsx / .xlsm path, formula is
\* the cell's formula text and calculated_value is the value the formula last
\* evaluated to, not the formula text.
C19_CalculatedValueIsComputed ==
    \A n \in 1..Len(out) :
        (ReadsExcel(consumed[n], fs) /\ ~OnXls(consumed[n]) /\ Payload(out[n]).success) =>
            \A i \in 1..Len(workbook.sheets) :
                \A rc \in FormulaCells(workbook.sheets[i]) :
                    LET formulas == Payload(out[n]).worksheets[i].formulas
                        r == RefOf(rc[1], rc[2])
                    IN  r \in DOMAIN formulas =>
                           /\ formulas[r].formula.v = workbook.sheets[i].cells[rc].text
                           /\ formulas[r].calculated_value.v = workbook.sheets[i].cells[rc].cached
                           /\ formulas[r].calculated_value # formulas[r].formula

\* The positions of the used range whose value is not empty.
FilledCells(ws) == {rc \in UsedRange(ws) : ws.cells[rc].kind # "empty"}

\* C20: reading a readable .xls workbook with include_formulas true (the
\* default) succeeds and emits the reduced-fidelity output: the cell list of
\* every sheet, and for every formula cell a formulas entry with the
\* placeholder formula text and the cell's value.
C20_XlsReadSucceedsWithPlaceholders ==
    \A n \in 1..Len(out) :
        (/\ ReadsExcel(consumed[n], fs)
         /\ OnXls(consumed[n])
         /\ FlagOn(consumed[n], "include_formulas")) =>
            /\ Payload(out[n]).success
            /\ \A i \in 1..Len(workbook.sheets) :
                   LET sheet == Payload(out[n]).worksheets[i]
                   IN  /\ {sheet.cells[k].reference : k \in 1..Len(sheet.cells)} =
                              {RefOf(rc[1], rc[2]) : rc \in FilledCells(workbook.sheets[i])}
                       /\ \A rc \in FormulaCells(workbook.sheets[i]) :
                              /\ RefOf(rc[1], rc[2]) \in DOMAIN sheet.formulas
                              /\ sheet.formulas[RefOf(rc[1], rc[2])].formula
                                     = "Formula extraction not fully supported in .xls files"
                              /\ sheet.formulas[RefOf(rc[1], rc[2])].calculated_value.v
                                     = workbook.sheets[i].cells[rc].cached

\* The three optional maps of a worksheet, each under the flag that asks for it.
FlagMaps ==
    { <<"include_formulas", "formulas">>,
      <<"include_formatting", "formatting">>,
      <<"include_validation", "data_validation">> }

\* What a flag must leave alone in worksheet i of a payload: the cell list, the
\* dimensions and the maps of the other two flags.
OutsideMap(p, i, map) ==
    [ cells      |-> p.worksheets[i].cells,
      dimensions |-> p.worksheets[i].dimensions,
      others     |-> [m \in {fm[2] : fm \in FlagMaps} \ {map} |-> p.worksheets[i][m]] ]

\* The payload of the answer to a tools/call line on the files f.
PayloadOf(l, f) == Payload(Process(l, f).response)

\* The answers to the call with the flag true and with the flag false both
\* succeed, the map of the flag is empty in every worksheet when it is false,
\* and everything else in the worksheet is the same in the two answers.
ControlsOnlyItsMap(on, off, map) ==
    /\ on.success
    /\ off.success
    /\ \A i \in 1..Len(workbook.sheets) :
           /\ DOMAIN off.worksheets[i][map] = {}
           /\ OutsideMap(off, i, map) = OutsideMap(on, i, map)

\* C21: in read_excel_file each of include_formulas, include_formatting and
\* include_validation controls only its own map: with the flag false the map is
\* empty in every worksheet while the cell list, the dimensions and the other two
\* maps are as with the flag true; on the .xls path data_validation is empty
\* for every value of include_validation.
C21_FlagControlsOnlyItsMap ==
    \A n \in 1..Len(out) :
        ReadsExcel(consumed[n], fs) =>
            /\ \A fm \in FlagMaps :
                   ControlsOnlyItsMap(PayloadOf(WithArgument(consumed[n], fm[1], JTrue), fs),
                                      PayloadOf(WithArgument(consumed[n], fm[1], JFalse), fs),
                                      fm[2])
            /\ (OnXls(consumed[n]) /\ Payload(out[n]).success) =>
                   \A v \in {JTrue, JFalse} :
                       \A i \in 1..Len(workbook.sheets) :
                           DOMAIN PayloadOf(WithArgument(consumed[n], "include_validation", v),
                                            fs).worksheets[i].data_validation = {}

\* The scalar a cell was written with, as a Python value.
Written(c) ==
    CASE c.kind = "text" -> PyStr(c.text)
      [] c.kind = "number" -> PyFloat(c.text)
      [] c.kind = "boolean" -> PyBool(c.text)

\* C22: on either codec path of read_excel_file, every cell holding a date and
\* time is emitted with the ISO-8601 string of the instant written to the cell,
\* and every cell holding a string, a number or a boolean is emitted with that
\* value unchanged.
C22_DatesAsIso8601 ==
    \A n \in 1..Len(out) :
        (ReadsExcel(consumed[n], fs) /\ Payload(out[n]).success) =>
            \A i \in 1..Len(workbook.sheets) :
                LET cells == Payload(out[n]).worksheets[i].cells
                IN  \A k \in 1..Len(cells) :
                        LET c == workbook.sheets[i].cells[<<cells[k].row, cells[k].column>>]
                        IN  /\ c = NoonCell => cells[k].value = PyStr(<<"2024-01-05T12:00:00">>)
                            /\ c.kind \in {"text", "number", "boolean"} =>
                                   cells[k].value = Written(c)

Calls(l, method) == IsRequest(l) /\ l.value.method = method

\* The payload of initialize: protocol version, capabilities, server name and
\* version.
InitializePayload ==
    [protocolVersion |-> "2024-11-05",
     capabilities |-> [tools |-> <<>>],
     serverInfo |-> [name |-> "ai-file-bridge", version |-> "2.0.0"]]

\* The response carries the constant payload of its method.
ConstantPayload(r, method) ==
    /\ IsResult(r)
    /\ method = "initialize" => r.result = InitializePayload
    /\ method = "tools/list" =>
           /\ r.result = [tools |-> ToolCatalog]
           /\ {r.result.tools[i].name : i \in 1..Len(r.result.tools)} = RegisteredTools
           /\ Len(r.result.tools) = 5

CatalogNames == {ToolCatalog[i].name : i \in 1..Len(ToolCatalog)}

\* The catalog entry of the tool lists file_path as required.
RequiresFilePath(tool) == "file_path" \in SeqRange(CatalogEntry(tool).required)

\* A tools/call whose arguments (a mapping, or omitted) carry no file_path.
WithoutFilePath(l) ==
    /\ ToolCall(l)
    /\ l.value.params.arguments.type \in {"absent", "dict"}
    /\ l.value.params.arguments.file_path = Absent

\* The response rejects the call for its missing file_path.
RejectsForFilePath(r) ==
    /\ IsError(r, INTERNAL_ERROR)
    /\ r.error.message = <<"Internal error: ", "file_path is required">>

\* C25: the tool names tools/list advertises are the names tools/call
\* dispatches: a tools/call is answered with -32601 "Tool not found" if and only
\* if its name is not in the catalog, and a tool rejects a call without
\* file_path if and only if its catalog entry lists file_path as required.
C25_CatalogMatchesDispatch ==
    \A n \in 1..Len(out) :
        ToolCall(consumed[n]) =>
            /\ IsError(out[n], METHOD_NOT_FOUND)
                   <=> consumed[n].value.params.name \notin CatalogNames
            /\ IsError(out[n], METHOD_NOT_FOUND) => out[n].error.message[1] = "Tool not found: "
            /\ (/\ WithoutFilePath(consumed[n])
                /\ consumed[n].value.params.name \in CatalogNames) =>
                   (RejectsForFilePath(out[n])
                        <=> RequiresFilePath(consumed[n].value.params.name))

\* get_supported_formats, whose entry requires nothing, was called with empty
\* arguments and answered with a result.
C25_Witness ==
    /\ pc = "done"
    /\ WithoutFilePath(consumed[1])
    /\ consumed[1].value.params.name = "get_supported_formats"
    /\ consumed[1].value.params.arguments.type = "dict"
    /\ ~RequiresFilePath("get_supported_formats")
    /\ IsResult(out[1])

\* The calls that hand a file to a document codec.
CodecCalls == {"Document", "load_workbook", "open_workbook"}

\* A call that reaches ExcelReader.read_excel_file or
\* WordReader.read_word_document through the tool of the same name.
ReaderCall(l) ==
    /\ ReadsPath(l)
    /\ l.value.params.name \in {"read_excel_file", "read_word_document"}

\* The path of the call does not exist.
Missing(l, f) == f[OnDisk(l)] = "absent"

\* The extension of the path is not one the called reader supports.
Unsupported(l) == ~Supports(l.value.params.name, ExtOf(l.value.params.arguments.file_path))

\* C26: in ExcelReader.read_excel_file and WordReader.read_word_document the
\* codec is never invoked for a path that does not exist or whose extension is
\* unsupported; the existence check comes first, so a missing path is reported
\* as file-not-found even when its extension is unsupported too.
C26_NoCodecBeforeChecks ==
    (Len(out) = 1 /\ ReaderCall(consumed[1])) =>
        /\ Len(io) >= 2
        /\ io[2] = <<"exists", OnDisk(consumed[1])>>
        /\ (Missing(consumed[1], fs) \/ Unsupported(consumed[1])) =>
               \A i \in 1..Len(io) : io[i][1] \notin CodecCalls
        /\ Missing(consumed[1], fs) =>
               Payload(out[1]).error =
                   <<"File not found: ", consumed[1].value.params.arguments.file_path>>
        /\ (~Missing(consumed[1], fs) /\ Unsupported(consumed[1])) =>
               Payload(out[1]).error[1] # "File not found: "

\* read_excel_file was called on e.txt, which does not exist: the answer says
\* file not found and no codec was invoked.
C26_Witness ==
    /\ pc = "done"
    /\ ReaderCall(consumed[1])
    /\ consumed[1].value.params.name = "read_excel_file"
    /\ consumed[1].value.params.arguments.file_path = "e.txt"
    /\ Missing(consumed[1], fs)
    /\ Unsupported(consumed[1])
    /\ Payload(out[1]).error = <<"File not found: ", "e.txt">>
    /\ io = << <<"call", "read_excel_file">>, <<"exists", "e.txt">> >>

\* C27: the except clauses of the loop are guarded: a failure raised while the
\* server emits a response or an error response does not end the loop, and only
\* end-of-stream on standard input ends the process.
C27_OutputFailureKeepsLoop ==
    pc \in {"done", "crashed"} => (pc = "done" /\ stdinClosed /\ stdin = <<>>)

\* C28: for every line that parses to a JSON object carrying an id, the
\* response written for it carries that same id, for initialize, tools/list,
\* tools/call and unknown methods alike.
C28_ResponseCarriesRequestId ==
    \A n \in 1..Len(out) :
        (IsRequest(consumed[n]) /\ consumed[n].value.id # Absent) =>
            /\ "id" \in DOMAIN out[n]
            /\ out[n].id = consumed[n].value.id

\* The response is a JSON-RPC 2.0 object with exactly one of result and error.
WellFormed(r) ==
    /\ "jsonrpc" \in DOMAIN r
    /\ r.jsonrpc = "2.0"
    /\ ("result" \in DOMAIN r) # ("error" \in DOMAIN r)
    /\ DOMAIN r \subseteq {"jsonrpc", "id", "result", "error"}

\* The result holds one text item, the JSON encoding of a tool payload.
OneTextItem(result) ==
    /\ DOMAIN result = {"content"}
    /\ Len(result.content) = 1
    /\ DOMAIN result.content[1] = {"type", "text"}
    /\ result.content[1].type = "text"
    /\ DOMAIN result.content[1].text = {"json"}

\* C29: every response the bridge server writes, for any input line, is an
\* object with jsonrpc = "2.0" and exactly one of result and error; an error
\* has one of the codes -32700, -32601, -32603, and the result of a tools/call
\* has a content list of exactly one text item holding the JSON-encoded tool
\* payload.
C29_ResponseShape ==
    \A n \in 1..Len(out) :
        /\ WellFormed(out[n])
        /\ "error" \in DOMAIN out[n] => out[n].error.code \in {-32700, -32601, -32603}
        /\ (Calls(consumed[n], "tools/call") /\ "result" \in DOMAIN out[n]) =>
               OneTextItem(out[n].result)

\* A tools/call of list_supported_files on an existing directory was answered
\* with a result of one text item.
C29_Witness ==
    /\ pc = "done"
    /\ Calls(consumed[1], "tools/call")
    /\ consumed[1].value.params.name = "list_supported_files"
    /\ consumed[1].value.params.arguments.directory_path = "docs"
    /\ fs["docs"] = "dir"
    /\ IsResult(out[1])
    /\ OneTextItem(out[1].result)

\* A tools/call of read_word_document that names a path.
ReadsWordPath(l) == ReadsPath(l) /\ l.value.params.name = "read_word_document"

\* The response is a result whose payload reports a failure.
FailedResult(r) == IsResult(r) /\ ~Payload(r).success

\* The path exists with the extension .docx and the codec fails on it.
CodecFailure(l, f) == ~Missing(l, f) /\ ~Unsupported(l) /\ ~CodecParses(f, OnDisk(l))

\* C30: the standalone Word server answers read_word_document on a path that
\* does not exist or whose extension is not .docx with a JSON-RPC error -32603,
\* and only a codec failure with a result whose payload has success = false; the
\* bridge server answers all three cases with such a result. Here out holds the
\* responses of the standalone server.
C30_ErrorChannelsDiffer ==
    \A n \in 1..Len(out) :
        ReadsWordPath(consumed[n]) =>
            /\ (Missing(consumed[n], fs) \/ Unsupported(consumed[n])) =>
                   /\ IsError(out[n], INTERNAL_ERROR)
                   /\ FailedResult(Process(consumed[n], fs).response)
            /\ CodecFailure(consumed[n], fs) =>
                   /\ FailedResult(out[n])
                   /\ FailedResult(Process(consumed[n], fs).response)
            /\ FailedResult(out[n]) => CodecFailure(consumed[n], fs)

\* The standalone server answered read_word_document on the missing e.txt with
\* -32603, where the bridge server answers with a failed result.
C30_Witness ==
    /\ pc = "done"
    /\ ReadsWordPath(consumed[1])
    /\ consumed[1].value.params.arguments.file_path = "e.txt"
    /\ Missing(consumed[1], fs)
    /\ IsError(out[1], INTERNAL_ERROR)
    /\ out[1].error.message = <<"Internal error: ", "File not found: ", "e.txt">>
    /\ FailedResult(Process(consumed[1], fs).response)

====
